---- MODULE Spec2Model ----
(***************************************************************************)
(* Model of the FPGA bring-up tool of M3: tools/fpga/main.py (main, the    *)
(* run loop, the teardown and TimeoutThread), tools/fpga/loader.py         *)
(* (Loader.init, Loader.start and their helpers) and tools/fpga/term.py.   *)
(*                                                                         *)
(* The main thread is a program counter pc over the statements of main()   *)
(* and of the Loader methods it calls; i is the index of the loop that pc  *)
(* is in.  The timer thread has its own counter tpc.  The process ends     *)
(* when main() returns or raises, or when the timer thread calls           *)
(* os._exit; proc records how.  The location pc keeps its value when the   *)
(* process ends, so that it names the statement that ended it.             *)
(***************************************************************************)
EXTENDS Integers, Sequences, FiniteSets, TLC

\* number of compute tiles of the platform (fpga_inst.pms)
NumTiles == 2
\* largest number of --mod options
MaxMods == 1
\* longest message received from the interconnect, in symbols
MaxMsgLen == 2

Tiles == 0 .. (NumTiles - 1)

\* args.debug and args.tile when the option is absent
None == -1

VARIABLES
    \* command line (args)
    kernels,     \* len(args.tile), at least 1, or None without --tile
    vm,          \* args.vm
    debug,       \* args.debug, or None
    timeout,     \* args.timeout is not None
    mods,        \* len(args.mod), 0 without --mod
    logflags,    \* args.logflags is a non-empty string
    \* main thread
    pc,          \* statement of main() to execute next
    i,           \* index of the current loop
    proc,        \* "alive", or how the process ended
    fatal,       \* the fatal condition that was diagnosed, or "none"
    timed_out,   \* local timed_out of main()
    msg,         \* bytes returned by the last receive_bytes
    \* threading events and the timer thread
    timeout_ev,
    started_ev,
    tpc,
    \* device state
    arq,         \* last value given to set_arq_enable, "reset" before
    arqOn,       \* number of set_arq_enable(True) calls
    clock,       \* tiles on which pm.start() was issued
    rocket,      \* per tile: number of rocket_start() calls
    tcu,         \* per tile: what _init_tile has done
    ep0,         \* per tile: slot 0 endpoint
    halted,      \* tiles stopped by the teardown, in order
    \* memory tile contents, by region
    binfo,       \* boot info: header, module records, descriptors, mem record
    image,       \* tiles whose ELF image is written
    argsW,       \* tiles whose argv area has been written to
    envW,        \* tiles whose environment block is written
    mailbox,     \* "stale", "cleared" by TCUTerm, or "published" by a tile
    ready,       \* number of writes of the .ready file
    terminal,    \* console backend: "none", "tcu" (TCUTerm) or "lx" (LxTerm)
    \* run loop and teardown observations
    quiet,       \* no message, stop request or interrupt reached the run loop
    diag,        \* tiles whose diagnostics were read, in order
    dump,        \* the two dumps of the tile under teardown
    \* the loader's and the console's computations, each followed on its own
    con,         \* TCUTerm: the mailbox words, a write in progress, the sends
    lay,         \* Loader.init: the DRAM writes with their addresses
    arg,         \* Loader._write_args: one argument list and its writes
    desc,        \* Loader._tile_desc: one call and its result
    ga,          \* utils.glob_addr: one call and its result
    prog,        \* Loader._load_prog: one tile's window while it is loaded
    slots,       \* Loader._init_tile: the endpoint slots of one tile
    rx           \* the run loop's receive path: the byte stream and its messages

cfgVars == <<kernels, vm, debug, timeout, mods, logflags>>
mainVars == <<pc, i, proc, fatal, timed_out, msg>>
thrVars == <<timeout_ev, started_ev, tpc>>
devVars == <<arq, arqOn, clock, rocket, tcu, ep0, halted>>
memVars == <<binfo, image, argsW, envW, mailbox, ready>>
conVars == <<terminal>>
obsVars == <<quiet, diag, dump>>
unitVars == <<con, lay, arg, desc, ga, prog, slots, rx>>
progVars == <<cfgVars, mainVars, thrVars, devVars, memVars, conVars, obsVars>>
vars == <<progVars, unitVars>>

Min(a, b) == IF a < b THEN a ELSE b

\* loader.py:32  kernel_tiles = kernels[0:len(tiles)]
kernel_tiles == Min(kernels, NumTiles)

\* loader.py:49  debug_tile = len(tiles) if debug is None else debug
debug_tile == IF debug = None THEN NumTiles ELSE debug

\* state of one dump (command log or instruction trace) of one tile
NoDump == [first |-> "none", resets |-> 0, retries |-> 0, all |-> FALSE]
NoDumps == [log |-> NoDump, trace |-> NoDump]

NoTcu == [reset |-> FALSE, trace |-> FALSE, features |-> FALSE, inval |-> FALSE]

NoBinfo == [hdr |-> FALSE, mods |-> 0, descs |-> FALSE, mem |-> FALSE]

\* the received bytes, as symbols: S and D stand for the two halves of the
\* marker "Shutting down", x for any other text, BAD for bytes that are not
\* valid UTF-8
Symbols == {"S", "D", "x", "BAD"}
Marker == <<"S", "D">>
Messages == UNION {[1 .. n -> Symbols] : n \in 1 .. MaxMsgLen}

\* main.py:132  bytes.decode() raises on invalid UTF-8
Decodes(m) == \A k \in 1 .. Len(m) : m[k] # "BAD"

\* main.py:133  "Shutting down" in msg
Contains(m) ==
    \E k \in 1 .. (Len(m) - Len(Marker) + 1) :
        \A j \in 1 .. Len(Marker) : m[k + j - 1] = Marker[j]

Alive == proc = "alive"

\* a computation that is not being followed
Idle == [at |-> "idle"]

Init ==
    /\ kernels \in {None} \cup (1 .. (NumTiles + 1))
    /\ vm \in BOOLEAN
    /\ debug \in {None} \cup (0 .. NumTiles)
    /\ timeout \in BOOLEAN
    /\ mods \in 0 .. MaxMods
    /\ logflags \in BOOLEAN
    /\ pc = "stop_tiles"
    /\ i = 0
    /\ proc = "alive"
    /\ fatal = "none"
    /\ timed_out = FALSE
    /\ msg = <<>>
    /\ timeout_ev = FALSE
    /\ started_ev = FALSE
    /\ tpc = IF timeout THEN "sleep" ELSE "off"
    /\ arq = "reset"
    /\ arqOn = 0
    /\ clock = {}
    /\ rocket = [t \in Tiles |-> 0]
    /\ tcu = [t \in Tiles |-> NoTcu]
    /\ ep0 = [t \in Tiles |-> "unknown"]
    /\ halted = <<>>
    /\ binfo = NoBinfo
    /\ image = {}
    /\ argsW = {}
    /\ envW = {}
    /\ mailbox = "stale"
    /\ ready = 0
    /\ terminal = "none"
    /\ quiet = TRUE
    /\ diag = <<>>
    /\ dump = NoDumps
    /\ con = Idle
    /\ lay = Idle
    /\ arg = Idle
    /\ desc = Idle
    /\ ga = Idle
    /\ prog = Idle
    /\ slots = Idle
    /\ rx = Idle

\* the main thread moves to statement p with loop index k
Goto(p, k) ==
    /\ pc' = p
    /\ i' = k
    /\ proc' = proc

\* the process ends at the current statement
End(how) ==
    /\ proc' = how
    /\ pc' = pc
    /\ i' = i

\* ---------------------------------------------------------------- main()

\* main.py:64-66  stop all tiles
StopTiles ==
    /\ Alive /\ pc = "stop_tiles"
    /\ clock' = {}
    /\ Goto("check_version", 0)
    /\ UNCHANGED <<unitVars, cfgVars, fatal, timed_out, msg, thrVars, memVars, conVars, obsVars>>
    /\ UNCHANGED <<arq, arqOn, rocket, tcu, ep0, halted>>

\* main.py:76-82  the statements after the version loop
AfterVersions == Goto("arq_off", 0)

\* variant of CheckVersionMismatch: the mismatch is printed, the loop goes on
CheckVersionMismatchNoReturn ==
    /\ fatal' = "version"
    /\ IF i + 1 < NumTiles THEN Goto("check_version", i + 1) ELSE AfterVersions

\* main.py:71-74  a TCU version mismatch returns from main()
CheckVersionMismatch ==
    /\ fatal' = "version"
    /\ End("returned")

\* main.py:68-74  check TCU versions
CheckVersion ==
    /\ Alive /\ pc = "check_version"
    /\ \E same \in BOOLEAN :
        IF same
        THEN /\ fatal' = fatal
             /\ IF i + 1 < NumTiles THEN Goto("check_version", i + 1)
                                    ELSE AfterVersions
        ELSE CheckVersionMismatch
    /\ UNCHANGED <<unitVars, cfgVars, timed_out, msg, thrVars, devVars, memVars, conVars, obsVars>>

\* main.py:81-82  disable NoC ARQ for program upload
ArqOff ==
    /\ Alive /\ pc = "arq_off"
    /\ arq' = "off"
    /\ Goto("init", 0)
    /\ UNCHANGED <<unitVars, cfgVars, fatal, timed_out, msg, thrVars, memVars, conVars, obsVars>>
    /\ UNCHANGED <<arqOn, clock, rocket, tcu, ep0, halted>>

\* ----------------------------------------------------------- Loader.init

\* loader.py:32-36  slicing args.tile raises TypeError when --tile is absent
LoaderInit ==
    /\ Alive /\ pc = "init"
    /\ IF kernels = None THEN End("crashed") ELSE Goto("bi_hdr", 0)
    /\ UNCHANGED <<unitVars, cfgVars, fatal, timed_out, msg, thrVars, devVars, memVars, conVars, obsVars>>

\* loader.py:99-109 follow the module loop
AfterMods == Goto("bi_descs", 0)

\* loader.py:86-91  mod_count, tile_count, mem_count, serv_count
BootInfoHeader ==
    /\ Alive /\ pc = "bi_hdr"
    /\ binfo' = [binfo EXCEPT !.hdr = TRUE]
    /\ IF mods > 0 THEN Goto("bi_mod", 0) ELSE AfterMods
    /\ UNCHANGED <<unitVars, cfgVars, fatal, timed_out, msg, thrVars, devVars, conVars, obsVars>>
    /\ UNCHANGED <<image, argsW, envW, mailbox, ready>>

\* loader.py:165-182  os.path.getsize (before the record is written) or open
\* (after it) raises OSError for a module file that cannot be read
AddModUnreadable(written) ==
    /\ binfo' = [binfo EXCEPT !.mods = IF written THEN @ + 1 ELSE @]
    /\ fatal' = "module"
    /\ End("crashed")

\* loader.py:94-97 and _add_mod
AddMod ==
    /\ Alive /\ pc = "bi_mod"
    /\ \E r \in {"ok", "nofile", "noread"} :
        CASE r = "ok" ->
                /\ binfo' = [binfo EXCEPT !.mods = @ + 1]
                /\ fatal' = fatal
                /\ IF i + 1 < mods THEN Goto("bi_mod", i + 1) ELSE AfterMods
          [] r = "nofile" -> AddModUnreadable(FALSE)
          [] r = "noread" -> AddModUnreadable(TRUE)
    /\ UNCHANGED <<unitVars, cfgVars, timed_out, msg, thrVars, devVars, conVars, obsVars>>
    /\ UNCHANGED <<image, argsW, envW, mailbox, ready>>

\* loader.py:99-104  one descriptor per tile and one for the memory tile
BootInfoDescs ==
    /\ Alive /\ pc = "bi_descs"
    /\ binfo' = [binfo EXCEPT !.descs = TRUE]
    /\ Goto("bi_mem", 0)
    /\ UNCHANGED <<unitVars, cfgVars, fatal, timed_out, msg, thrVars, devVars, conVars, obsVars>>
    /\ UNCHANGED <<image, argsW, envW, mailbox, ready>>

\* loader.py:106-109  the memory region record
BootInfoMem ==
    /\ Alive /\ pc = "bi_mem"
    /\ binfo' = [binfo EXCEPT !.mem = TRUE]
    /\ Goto("it_reset", 0)
    /\ UNCHANGED <<unitVars, cfgVars, fatal, timed_out, msg, thrVars, devVars, conVars, obsVars>>
    /\ UNCHANGED <<image, argsW, envW, mailbox, ready>>

\* one statement of _init_tile that sets a field of the tile's TCU state
InitStep(at, field, next) ==
    /\ Alive /\ pc = at
    /\ tcu' = [tcu EXCEPT ![i] = [@ EXCEPT ![field] = TRUE]]
    /\ Goto(next, i)
    /\ UNCHANGED <<unitVars, cfgVars, fatal, timed_out, msg, thrVars, memVars, conVars, obsVars>>
    /\ UNCHANGED <<arq, arqOn, clock, rocket, halted>>

\* loader.py:57  tile.tcu_reset()
InitReset == InitStep("it_reset", "reset", "it_trace") /\ ep0' = ep0

\* loader.py:60  tile.rocket_enableTrace()
InitTrace == InitStep("it_trace", "trace", "it_feat") /\ ep0' = ep0

\* loader.py:63  tile.tcu_set_features(1, self.vm, 1)
InitFeatures == InitStep("it_feat", "features", "it_inval") /\ ep0' = ep0

\* loader.py:66-67  invalidate all EPs
InitInvalidate ==
    /\ InitStep("it_inval", "inval", "it_pmp")
    /\ ep0' = [ep0 EXCEPT ![i] = "invalid"]

\* loader.py:43-45  the load loop starts when every tile is initialised
AfterInit == IF kernel_tiles > 0 THEN Goto("lp_start", 0) ELSE Goto("arq_on", 0)

\* loader.py:41  loaded = i < len(kernel_tiles)
Loaded(t) == t < kernel_tiles

\* loader.py:69-82 with the load loop entered once a loaded tile is initialised
InitPmpThenLoad ==
    /\ Alive /\ pc = "it_pmp"
    /\ ep0' = [ep0 EXCEPT ![i] = IF Loaded(i) \/ ~vm THEN "pmp" ELSE @]
    /\ IF i + 1 < NumTiles /\ ~Loaded(i) THEN Goto("it_reset", i + 1) ELSE AfterInit
    /\ UNCHANGED <<unitVars, cfgVars, fatal, timed_out, msg, thrVars, memVars, conVars, obsVars>>
    /\ UNCHANGED <<arq, arqOn, clock, rocket, tcu, halted>>

\* loader.py:69-82  install the PMP EP for loaded tiles or without vm
InitPmp ==
    /\ Alive /\ pc = "it_pmp"
    /\ ep0' = [ep0 EXCEPT ![i] = IF Loaded(i) \/ ~vm THEN "pmp" ELSE @]
    /\ IF i + 1 < NumTiles THEN Goto("it_reset", i + 1) ELSE AfterInit
    /\ UNCHANGED <<unitVars, cfgVars, fatal, timed_out, msg, thrVars, memVars, conVars, obsVars>>
    /\ UNCHANGED <<arq, arqOn, clock, rocket, tcu, halted>>

\* loader.py:113-119  start core
LoadStart ==
    /\ Alive /\ pc = "lp_start"
    /\ clock' = clock \cup {i}
    /\ Goto("lp_entry", i)
    /\ UNCHANGED <<unitVars, cfgVars, fatal, timed_out, msg, thrVars, memVars, conVars, obsVars>>
    /\ UNCHANGED <<arq, arqOn, rocket, tcu, ep0, halted>>

\* variant of EntryMismatch: the error is printed, the load goes on
EntryMismatchNoExit ==
    /\ fatal' = "entry"
    /\ Goto("lp_elf", i)

\* loader.py:124-126  sys.exit on an entry other than 0x10003000
EntryMismatch ==
    /\ fatal' = "entry"
    /\ End("exited")

\* loader.py:121-126  open raises for a missing executable
LoadEntry ==
    /\ Alive /\ pc = "lp_entry"
    /\ \E e \in {"ok", "mismatch", "nofile"} :
        CASE e = "ok" -> fatal' = fatal /\ Goto("lp_elf", i)
          [] e = "mismatch" -> EntryMismatch
          [] e = "nofile" -> fatal' = fatal /\ End("crashed")
    /\ UNCHANGED <<unitVars, cfgVars, timed_out, msg, thrVars, devVars, memVars, conVars, obsVars>>

\* loader.py:128-135  dram.mem.write_elf
LoadElf ==
    /\ Alive /\ pc = "lp_elf"
    /\ image' = image \cup {i}
    /\ Goto("lp_argv", i)
    /\ UNCHANGED <<unitVars, cfgVars, fatal, timed_out, msg, thrVars, devVars, conVars, obsVars>>
    /\ UNCHANGED <<binfo, argsW, envW, mailbox, ready>>

\* loader.py:193-194  sys.exit("Not enough space for arguments"), raised
\* after the pointer and the string that crossed the bound were written
ArgsOverflow ==
    /\ fatal' = "args"
    /\ End("exited")

\* loader.py:184-197  _write_args at pc = at, continuing at next
WriteArgs(at, next) ==
    /\ Alive /\ pc = at
    /\ argsW' = argsW \cup {i}
    /\ \E fits \in BOOLEAN :
        IF fits THEN fatal' = fatal /\ Goto(next, i) ELSE ArgsOverflow
    /\ UNCHANGED <<unitVars, cfgVars, timed_out, msg, thrVars, devVars, conVars, obsVars>>
    /\ UNCHANGED <<binfo, image, envW, mailbox, ready>>

\* loader.py:138-139  argv
LoadArgv == WriteArgs("lp_argv", IF logflags THEN "lp_envp" ELSE "lp_env")

\* loader.py:140-143  envp, only with logflags
LoadEnvp == WriteArgs("lp_envp", "lp_env")

\* loader.py:44  next program, or return to main.py:86
AfterLoad == IF i + 1 < kernel_tiles THEN Goto("lp_start", i + 1) ELSE Goto("arq_on", 0)

\* variant of LoadEnv: ARQ is enabled again after each program
LoadEnvArqPerTile ==
    /\ Alive /\ pc = "lp_env"
    /\ envW' = envW \cup {i}
    /\ AfterLoad
    /\ arq' = "on"
    /\ arqOn' = arqOn + 1
    /\ UNCHANGED <<unitVars, cfgVars, fatal, timed_out, msg, thrVars, conVars, obsVars>>
    /\ UNCHANGED <<clock, rocket, tcu, ep0, halted>>
    /\ UNCHANGED <<binfo, image, argsW, mailbox, ready>>

\* loader.py:145-163  trampoline, environment block and tile ids
LoadEnv ==
    /\ Alive /\ pc = "lp_env"
    /\ envW' = envW \cup {i}
    /\ AfterLoad
    /\ arq' = arq
    /\ arqOn' = arqOn
    /\ UNCHANGED <<unitVars, cfgVars, fatal, timed_out, msg, thrVars, conVars, obsVars>>
    /\ UNCHANGED <<clock, rocket, tcu, ep0, halted>>
    /\ UNCHANGED <<binfo, image, argsW, mailbox, ready>>

\* main.py:86-87  enable NoC ARQ when cores are running
ArqOn ==
    /\ Alive /\ pc = "arq_on"
    /\ arq' = "on"
    /\ arqOn' = arqOn + 1
    /\ Goto("start", 0)
    /\ UNCHANGED <<unitVars, cfgVars, fatal, timed_out, msg, thrVars, memVars, conVars, obsVars>>
    /\ UNCHANGED <<clock, rocket, tcu, ep0, halted>>

\* loader.py:51  the tiles Loader.start starts
\* loader.py:51 without the test of the debug tile
StartsAll(t) == t \in Tiles

Starts(t) == t # debug_tile

\* loader.py:47-53  Loader.start, one tile per step
Start ==
    /\ Alive /\ pc = "start"
    /\ rocket' = [rocket EXCEPT ![i] = IF Starts(i) THEN @ + 1 ELSE @]
    /\ IF i + 1 < NumTiles THEN Goto("start", i + 1) ELSE Goto("ready", 0)
    /\ UNCHANGED <<unitVars, cfgVars, fatal, timed_out, msg, thrVars, memVars, conVars, obsVars>>
    /\ UNCHANGED <<arq, arqOn, clock, tcu, ep0, halted>>

\* main.py:91-95 without the test of args.debug
ReadyAlways ==
    /\ Alive /\ pc = "ready"
    /\ ready' = ready + 1
    /\ Goto("term", 0)
    /\ UNCHANGED <<unitVars, cfgVars, fatal, timed_out, msg, thrVars, devVars, conVars, obsVars>>
    /\ UNCHANGED <<binfo, image, argsW, envW, mailbox>>

\* main.py:91-95  signal run.sh that everything has been loaded
Ready ==
    /\ Alive /\ pc = "ready"
    /\ ready' = IF debug # None THEN ready + 1 ELSE ready
    /\ Goto("term", 0)
    /\ UNCHANGED <<unitVars, cfgVars, fatal, timed_out, msg, thrVars, devVars, conVars, obsVars>>
    /\ UNCHANGED <<binfo, image, argsW, envW, mailbox>>

\* ------------------------------------------------------------- run loop

\* main.py:97-103  the console backend; TCUTerm.__init__ (term.py:34-36)
\* clears the two mailbox words
Term ==
    /\ Alive /\ pc = "term"
    /\ \E serial \in BOOLEAN :
        IF serial
        THEN terminal' = "lx" /\ mailbox' = mailbox
        ELSE terminal' = "tcu" /\ mailbox' = "cleared"
    /\ Goto("set_started", 0)
    /\ UNCHANGED <<unitVars, cfgVars, fatal, timed_out, msg, thrVars, devVars, obsVars>>
    /\ UNCHANGED <<binfo, image, argsW, envW, ready>>

\* main.py:105-107  started_ev.set(); timed_out = False
SetStarted ==
    /\ Alive /\ pc = "set_started"
    /\ started_ev' = TRUE
    /\ timed_out' = FALSE
    /\ Goto("chk_timeout", 0)
    /\ UNCHANGED <<unitVars, cfgVars, fatal, msg, timeout_ev, tpc, devVars, memVars, conVars, obsVars>>

\* main.py:108-138  the statements inside the try of the run loop
InTry == pc \in {"chk_timeout", "chk_stop", "receive", "forward"}

\* main.py:140  the statement after the run loop
AfterLoop == Goto("cleanup", 0)

\* main.py:110-113 with the flag left unread
ChkTimeoutBlind ==
    /\ Alive /\ pc = "chk_timeout"
    /\ timed_out' = timed_out /\ Goto("chk_stop", 0)
    /\ UNCHANGED <<unitVars, cfgVars, fatal, msg, thrVars, devVars, memVars, conVars, obsVars>>

\* main.py:110-113  check for timeout
ChkTimeout ==
    /\ Alive /\ pc = "chk_timeout"
    /\ IF timeout_ev
       THEN timed_out' = TRUE /\ AfterLoop
       ELSE timed_out' = timed_out /\ Goto("chk_stop", 0)
    /\ UNCHANGED <<unitVars, cfgVars, fatal, msg, thrVars, devVars, memVars, conVars, obsVars>>

\* main.py:116-119  should_stop() returned True
StopRequested ==
    /\ timed_out' = TRUE
    /\ quiet' = FALSE
    /\ AfterLoop

\* main.py:116, 122  should_stop() returned False
NoStop ==
    /\ timed_out' = timed_out
    /\ quiet' = quiet
    /\ Goto("receive", 0)

\* an exception other than KeyboardInterrupt leaves main() (main.py:199)
Raise ==
    /\ timed_out' = timed_out
    /\ quiet' = quiet
    /\ End("crashed")

\* term.py:39-45, 58-73  TCUTerm.should_stop with the pending input:
\* nothing, the quit key 0x1d, other keys (forwarded by _write, which sends
\* only if the mailbox holds a destination), or a KeyboardInterrupt inside
\* _getkey, which makes bytes a list that _write cannot encode
TcuShouldStop ==
    \E input \in {"none", "quit", "text", "sigint"} :
        CASE input = "none" -> NoStop
          [] input = "quit" -> StopRequested
          [] input = "text" ->
                IF mailbox = "published"
                THEN \E sent \in BOOLEAN : IF sent THEN NoStop ELSE Raise
                ELSE NoStop
          [] input = "sigint" -> Raise

\* term.py:104-105  LxTerm.should_stop
LxShouldStop ==
    \E alive \in BOOLEAN : IF alive THEN NoStop ELSE StopRequested

\* main.py:115-119  check if there is input to pass to the FPGA
ChkStop ==
    /\ Alive /\ pc = "chk_stop"
    /\ IF terminal = "tcu" THEN TcuShouldStop ELSE LxShouldStop
    /\ UNCHANGED <<unitVars, cfgVars, fatal, msg, thrVars, devVars, memVars, conVars>>
    /\ UNCHANGED <<diag, dump>>

\* main.py:124-125  receive_bytes timed out or raised an Exception
ReceiveNothing == Goto("chk_timeout", 0)

\* main.py:121-125  check for output
Receive ==
    /\ Alive /\ pc = "receive"
    /\ \/ /\ ReceiveNothing
          /\ UNCHANGED <<msg, quiet>>
       \/ \E m \in Messages :
            /\ msg' = m
            /\ quiet' = FALSE
            /\ Goto("forward", 0)
    /\ UNCHANGED <<unitVars, cfgVars, fatal, timed_out, thrVars, devVars, memVars, conVars>>
    /\ UNCHANGED <<diag, dump>>

\* main.py:127-136  forward the bytes and look for the shutdown message
Forward ==
    /\ Alive /\ pc = "forward"
    /\ msg' = <<>>
    /\ IF Decodes(msg) /\ Contains(msg) THEN AfterLoop ELSE Goto("chk_timeout", 0)
    /\ UNCHANGED <<unitVars, cfgVars, fatal, timed_out, thrVars, devVars, memVars, conVars, obsVars>>

\* main.py:137-138 inside the try, main.py:202-203 outside of it
Interrupt ==
    /\ Alive
    /\ IF InTry
       THEN /\ timed_out' = TRUE
            /\ msg' = <<>>
            /\ quiet' = FALSE
            /\ AfterLoop
       ELSE /\ UNCHANGED <<timed_out, msg, quiet>>
            /\ End("interrupted")
    /\ UNCHANGED <<unitVars, cfgVars, fatal, thrVars, devVars, memVars, conVars, diag, dump>>

\* ------------------------------------------------------------- teardown

\* main.py:140  terminal.cleanup()
Cleanup ==
    /\ Alive /\ pc = "cleanup"
    /\ Goto("td_arq", 0)
    /\ UNCHANGED <<unitVars, cfgVars, fatal, timed_out, msg, thrVars, devVars, memVars, conVars, obsVars>>

\* main.py:142-143  disable NoC ARQ again for post-processing
TeardownArq ==
    /\ Alive /\ pc = "td_arq"
    /\ arq' = "off"
    /\ Goto("td_pkt", 0)
    /\ UNCHANGED <<unitVars, cfgVars, fatal, timed_out, msg, thrVars, memVars, conVars, obsVars>>
    /\ UNCHANGED <<arqOn, clock, rocket, tcu, ep0, halted>>

\* main.py:148-154  packet counters; a failure is caught
TeardownPackets ==
    /\ Alive /\ pc = "td_pkt"
    /\ diag' = Append(diag, i)
    /\ Goto("td_flit", i)
    /\ UNCHANGED <<unitVars, cfgVars, fatal, timed_out, msg, thrVars, devVars, memVars, conVars>>
    /\ UNCHANGED <<quiet, dump>>

\* main.py:156-163 with the log dump in both outcomes
TeardownFlitsThenLog ==
    /\ Alive /\ pc = "td_flit"
    /\ Goto("td_log", i)
    /\ UNCHANGED <<unitVars, cfgVars, fatal, timed_out, msg, thrVars, devVars, memVars, conVars, obsVars>>

\* main.py:156-163  flit counters; a failure is caught
TeardownFlits ==
    /\ Alive /\ pc = "td_flit"
    /\ Goto(IF timed_out THEN "td_log" ELSE "td_trace", i)
    /\ UNCHANGED <<unitVars, cfgVars, fatal, timed_out, msg, thrVars, devVars, memVars, conVars, obsVars>>

\* the first attempt of a dump
DumpFirst(which, at, okNext, failNext) ==
    /\ Alive /\ pc = at
    /\ \E ok \in BOOLEAN :
        /\ dump' = [dump EXCEPT ![which].first = IF ok THEN "ok" ELSE "fail"]
        /\ Goto(IF ok THEN okNext ELSE failNext, i)
    /\ UNCHANGED <<unitVars, cfgVars, fatal, timed_out, msg, thrVars, devVars, memVars, conVars>>
    /\ UNCHANGED <<quiet, diag>>

\* tile.tcu_reset() in an except clause: it is inside no try, an exception
\* it raises leaves main()
DumpReset(which, at, next) ==
    /\ Alive /\ pc = at
    /\ dump' = [dump EXCEPT ![which].resets = @ + 1]
    /\ \E ok \in BOOLEAN : IF ok THEN Goto(next, i) ELSE End("crashed")
    /\ UNCHANGED <<unitVars, cfgVars, fatal, timed_out, msg, thrVars, devVars, memVars, conVars>>
    /\ UNCHANGED <<quiet, diag>>

\* the second attempt of a dump, with all=True; a failure is passed over
DumpRetry(which, at, next) ==
    /\ Alive /\ pc = at
    /\ dump' = [dump EXCEPT ![which].retries = @ + 1, ![which].all = TRUE]
    /\ Goto(next, i)
    /\ UNCHANGED <<unitVars, cfgVars, fatal, timed_out, msg, thrVars, devVars, memVars, conVars>>
    /\ UNCHANGED <<quiet, diag>>

\* main.py:166-167  tile.tcu_print_log
LogDump == DumpFirst("log", "td_log", "td_trace", "td_log_reset")

\* main.py:168-172
LogReset == DumpReset("log", "td_log_reset", "td_log_retry")

\* main.py:173-176
LogRetry == DumpRetry("log", "td_log_retry", "td_trace")

\* main.py:179-180  tile.rocket_printTrace
TraceDump == DumpFirst("trace", "td_trace", "td_stop", "td_trace_reset")

\* main.py:181-185
TraceReset == DumpReset("trace", "td_trace_reset", "td_trace_retry")

\* main.py:186-189
TraceRetry == DumpRetry("trace", "td_trace_retry", "td_stop")

\* main.py:191  tile.stop(), then the next tile or the end of main()
TeardownStop ==
    /\ Alive /\ pc = "td_stop"
    /\ halted' = Append(halted, i)
    /\ clock' = clock \ {i}
    /\ dump' = NoDumps
    /\ IF i + 1 < NumTiles
       THEN Goto("td_pkt", i + 1)
       ELSE pc' = "td_done" /\ i' = i /\ proc' = "returned"
    /\ UNCHANGED <<unitVars, cfgVars, fatal, timed_out, msg, thrVars, memVars, conVars>>
    /\ UNCHANGED <<arq, arqOn, rocket, tcu, ep0>>
    /\ UNCHANGED <<quiet, diag>>

\* --------------------------------------------------------- TimeoutThread

\* main.py:30-38  the sleep ends; timeout_ev.set()
TimerFire ==
    /\ Alive /\ tpc = "sleep"
    /\ timeout_ev' = TRUE
    /\ tpc' = "check"
    /\ UNCHANGED <<unitVars, cfgVars, mainVars, started_ev, devVars, memVars, conVars, obsVars>>

\* main.py:39  if not started_ev.is_set()
TimerCheck ==
    /\ Alive /\ tpc = "check"
    /\ tpc' = IF started_ev THEN "done" ELSE "exit"
    /\ UNCHANGED <<unitVars, cfgVars, mainVars, timeout_ev, started_ev, devVars, memVars, conVars, obsVars>>

\* main.py:40  os._exit(1)
TimerExit ==
    /\ Alive /\ tpc = "exit"
    /\ proc' = "killed"
    /\ UNCHANGED <<unitVars, cfgVars, pc, i, fatal, timed_out, msg, thrVars, devVars, memVars, conVars, obsVars>>

\* ------------------------------------------------------------ the tiles

\* a tile that was loaded and started writes its (tile, ep) pair to the
\* mailbox words that TCUTerm._write reads (term.py:69-70)
GuestPublish ==
    /\ Alive
    /\ \E t \in Tiles : rocket[t] > 0 /\ t \in image /\ t \in envW
    /\ mailbox # "published"
    /\ mailbox' = "published"
    /\ UNCHANGED <<unitVars, cfgVars, mainVars, thrVars, devVars, conVars, obsVars>>
    /\ UNCHANGED <<binfo, image, argsW, envW, ready>>

Next ==
    \/ StopTiles \/ CheckVersion \/ ArqOff
    \/ LoaderInit \/ BootInfoHeader \/ AddMod \/ BootInfoDescs \/ BootInfoMem
    \/ InitReset \/ InitTrace \/ InitFeatures \/ InitInvalidate \/ InitPmp
    \/ LoadStart \/ LoadEntry \/ LoadElf \/ LoadArgv \/ LoadEnvp \/ LoadEnv
    \/ ArqOn \/ Start \/ Ready \/ Term \/ SetStarted
    \/ ChkTimeout \/ ChkStop \/ Receive \/ Forward \/ Interrupt
    \/ Cleanup \/ TeardownArq \/ TeardownPackets \/ TeardownFlits
    \/ LogDump \/ LogReset \/ LogRetry \/ TraceDump \/ TraceReset \/ TraceRetry
    \/ TeardownStop
    \/ TimerFire \/ TimerCheck \/ TimerExit
    \/ GuestPublish

Spec == Init /\ [][Next]_vars

\* ---------------------------------------------------------------- claims

\* statements of Loader.init: boot info, tile initialisation, program load
InitPcs ==
    {"init", "bi_hdr", "bi_mod", "bi_descs", "bi_mem",
     "it_reset", "it_trace", "it_feat", "it_inval", "it_pmp",
     "lp_start", "lp_entry", "lp_elf", "lp_argv", "lp_envp", "lp_env"}

\* statements of main() up to the call of Loader.init
PrePcs == {"stop_tiles", "check_version", "arq_off"}

\* statements of the teardown
TeardownPcs ==
    {"td_pkt", "td_flit", "td_log", "td_log_reset", "td_log_retry",
     "td_trace", "td_trace_reset", "td_trace_retry", "td_stop", "td_done"}

\* the state that Loader.init writes
LoaderState == <<binfo, image, argsW, envW, tcu, ep0>>

AllInitialised ==
    \A t \in Tiles :
        /\ tcu[t].reset /\ tcu[t].trace /\ tcu[t].features /\ tcu[t].inval
        /\ ep0[t] # "unknown"

AllLoaded == \A t \in Tiles : Loaded(t) => t \in image /\ t \in argsW /\ t \in envW

NoneStarted == \A t \in Tiles : rocket[t] = 0

AllTilesInOrder == [k \in 1 .. NumTiles |-> k - 1]

\* C1: ARQ is off whenever Loader.init is at work (boot info, tile
\* initialisation, program load) and whenever its state changes; it is
\* enabled by no step before Loader.init has initialised every tile and
\* loaded every program, by exactly one step after that, which comes before
\* the first rocket_start; it changes at no point between two loads.
C1_ArqAroundUpload ==
    /\ [](pc \in InitPcs => arq = "off")
    /\ [](arqOn = IF pc \in PrePcs \cup InitPcs \cup {"arq_on"} THEN 0 ELSE 1)
    /\ [][/\ (LoaderState' # LoaderState => arq = "off" /\ arq' = "off")
          /\ (arqOn' # arqOn =>
                binfo.mem /\ AllInitialised /\ AllLoaded /\ NoneStarted)
          /\ (rocket' # rocket => arq = "on" /\ arqOn = 1)
          /\ (arq' # arq => pc \notin InitPcs /\ pc' \notin (InitPcs \ {"init"}))]_vars

\* C1 witness: every tile has a program, all are loaded, ARQ was enabled
\* once and the first tile is about to be started.
C1_Witness ==
    /\ pc = "start" /\ i = 0 /\ Alive
    /\ kernel_tiles = NumTiles /\ envW = Tiles
    /\ arq = "on" /\ arqOn = 1

\* C2: a tile on which rocket_start was issued has its slot 0 PMP
\* endpoint, its image and its environment block written.
C2_StartedTilesAreLoaded ==
    \A t \in Tiles : rocket[t] > 0 => ep0[t] = "pmp" /\ t \in image /\ t \in envW

\* C3 as claimed: after an entry mismatch no tile has had start() or
\* rocket_start() issued.
C3_NoStartOfAnyKind ==
    fatal = "entry" => clock = {} /\ NoneStarted

\* C3 as amended: after an entry mismatch the process has exited at the
\* entry check, no tile has had rocket_start() issued, and start() was
\* issued on the tile whose executable failed the check and on the tiles
\* loaded before it, and on no other tile.
C3_NoRocketStart ==
    fatal = "entry" =>
        /\ proc = "exited" /\ pc = "lp_entry"
        /\ NoneStarted
        /\ clock = 0 .. i
        /\ image = 0 .. (i - 1)

\* C3 witness: the executable of the last tile has the wrong entry; the
\* tiles before it are loaded.
C3_Witness ==
    /\ fatal = "entry" /\ proc = "exited"
    /\ i = NumTiles - 1 /\ envW = 0 .. (NumTiles - 2)

\* C4: once a fatal condition is diagnosed the process has ended in
\* bring-up, no tile has had rocket_start issued, the run loop was not
\* entered, and no device or memory state changes any more.
C4_FatalEndsBringUp ==
    /\ [](fatal # "none" =>
            /\ ~Alive
            /\ NoneStarted
            /\ ~started_ev
            /\ pc \in PrePcs \cup InitPcs)
    /\ [][fatal # "none" => UNCHANGED <<devVars, memVars, mainVars>>]_vars

\* C4 witness: the arguments of the last tile overflow after the tile's
\* clock was started and its image written.
C4_Witness ==
    /\ fatal = "args" /\ proc = "exited"
    /\ i = NumTiles - 1 /\ i \in clock /\ i \in image

\* C5: a run with a timeout that reached RUNNING, received no message, no
\* stop request and no interrupt, left the loop with timed_out and ended by
\* a return or an exception of main(), has read the diagnostics of every
\* tile once, in index order.
C5_TimeoutDiagnosesAll ==
    (/\ timeout /\ started_ev /\ quiet /\ timed_out
     /\ proc \in {"returned", "crashed"})
        => diag = AllTilesInOrder

\* C6: a teardown that ended by a return or an exception of main() has
\* stopped every tile: no failure of a diagnostic operation left main().
C6_TeardownStopsAll ==
    (pc \in TeardownPcs /\ proc \in {"returned", "crashed"})
        => halted = AllTilesInOrder

\* the rule of C7 for one dump
DumpRule(d) ==
    /\ d.first = "fail" => d.resets = 1 /\ d.retries = 1 /\ d.all
    /\ d.first = "ok" => d.resets = 0 /\ d.retries = 0
    /\ d.retries <= 1

\* C7: when the teardown is past a dump of a tile, or main() has ended
\* with an exception, a failed first attempt was followed by one reset and
\* one retry with all=True, a successful one by neither.
C7_ResetAndRetryOnce ==
    /\ (pc \in {"td_trace", "td_trace_reset", "td_trace_retry", "td_stop"}
            \/ proc = "crashed") => DumpRule(dump.log)
    /\ (pc = "td_stop" \/ proc = "crashed") => DumpRule(dump.trace)

\* main.py:106-138  RUNNING: started_ev is set and main() is in the loop
Running == Alive /\ started_ev /\ InTry

\* C8: a step of main() that leaves RUNNING goes to the teardown, with
\* timed_out set (timeout flag, stop request, interrupt) or from the
\* marker check of a decoded message that holds the marker; after a
\* receive that returned nothing the timeout check comes next.
C8_LoopExits ==
    [][/\ (Running /\ ~Running' /\ proc' # "killed") =>
            /\ Alive' /\ pc' = "cleanup"
            /\ \/ timed_out'
               \/ pc = "forward" /\ Decodes(msg) /\ Contains(msg)
       /\ (Running /\ pc = "receive" /\ Running' /\ pc' # "forward") =>
            pc' = "chk_timeout"]_vars

\* C9: once Loader.start has returned with a tile started, an interrupt
\* does not end the process: it leads to the teardown.
C9_InterruptIsTimeout ==
    (proc = "interrupted" /\ ~NoneStarted) => pc = "start"

\* C10: os._exit kills the process only before started_ev is set.
C10_NoKillWhenStarted ==
    proc = "killed" => ~started_ev

\* ------------------------------------------------- numbers wider than 31 bits

\* 4096, the page of the loader's alignment masks
PAGE == 4096

\* a byte count or DRAM address: whole pages of 4 KiB and the bytes beyond
Big(p, o) == [pg |-> p, off |-> o]

\* a number below 2^31 as pages and bytes
ToBig(n) == Big(n \div PAGE, n % PAGE)

\* a + b
BigAdd(a, b) ==
    Big(a.pg + b.pg + ((a.off + b.off) \div PAGE), (a.off + b.off) % PAGE)

\* a - b, with a negative number of pages when b is the larger
BigSub(a, b) ==
    IF a.off >= b.off
    THEN Big(a.pg - b.pg, a.off - b.off)
    ELSE Big(a.pg - b.pg - 1, a.off + PAGE - b.off)

\* a < b and a <= b
BigLt(a, b) == a.pg < b.pg \/ (a.pg = b.pg /\ a.off < b.off)
BigLe(a, b) == a = b \/ BigLt(a, b)

\* a 64-bit word as the set of the positions of its one bits
Pow2(k) == 2 ^ k
Bits(n) == {b \in 0 .. 30 : (n \div Pow2(b)) % 2 = 1}

\* the word of a number kept as pages and bytes
BigBits(a) == {b + 12 : b \in Bits(a.pg)} \cup Bits(a.off)

\* w << k, w >> k and a | b
Shl(w, k) == {b + k : b \in w}
Shr(w, k) == {b - k : b \in {x \in w : x >= k}}
Or(a, b) == a \cup b

\* ------------------------------------------------------ loader.py constants

\* loader.py:12  DRAM_SIZE = 2 GiB
DRAM_SIZE == Big(2 * 1024 * 256, 0)

\* loader.py:13-15
DRAM_OFF == 268435456
ENV == 268439552
MEM_TILE == 8

\* loader.py:17-21  the fixed regions at the bottom of the DRAM
KENV_ADDR == 0
KENV_SIZE == 4 * 1024
SERIAL_ADDR == KENV_ADDR + KENV_SIZE
SERIAL_SIZE == 4 * 1024
PMP_ADDR == SERIAL_ADDR + SERIAL_SIZE

\* main.py:77  the window of one tile: 16 MiB with virtual memory, 64 MiB without
pmp_size(vmf) == IF vmf THEN 16 * 1024 * 1024 ELSE 64 * 1024 * 1024

\* ------------------------------------------------------- Loader._tile_desc

\* most tiles one call is followed with
MaxDescTiles == 8

\* loader.py:199-215 with the attribute bits shifted by 20, as tools/fpga.py has them
tile_descShift20(T, vmf, idx) ==
    IF idx >= T
    THEN Or(Shl(Bits(DRAM_SIZE.pg), 28), Or(Shl(Shl(Bits(1), 4), 20), Bits(1)))
    ELSE LET riscv == Shl(Bits(1), 6)
             imem == IF ~vmf
                     THEN Or(Shl(Bits(pmp_size(vmf) \div PAGE), 28),
                             Shl(Shl(Bits(1), 4), 20))
                     ELSE {}
             core == IF idx < 5
                     THEN Shl(Shl(Bits(1), 1), 20)
                     ELSE Shl(Shl(Bits(1), 0), 20)
             io == IF idx = 6
                   THEN Or(Shl(Shl(Bits(1), 2), 20), Shl(Shl(Bits(1), 3), 20))
                   ELSE {}
         IN  Or(Or(riscv, imem), Or(core, io))

\* loader.py:199-215  _tile_desc(tiles, tile_idx) for T tiles
tile_desc(T, vmf, idx) ==
    IF idx >= T
    THEN Or(Shl(Bits(DRAM_SIZE.pg), 28), Or(Shl(Shl(Bits(1), 4), 11), Bits(1)))
    ELSE LET riscv == Shl(Bits(1), 6)
             imem == IF ~vmf
                     THEN Or(Shl(Bits(pmp_size(vmf) \div PAGE), 28),
                             Shl(Shl(Bits(1), 4), 11))
                     ELSE {}
             core == IF idx < 5
                     THEN Shl(Shl(Bits(1), 1), 11)
                     ELSE Shl(Shl(Bits(1), 0), 11)
             io == IF idx = 6
                   THEN Or(Shl(Shl(Bits(1), 2), 11), Shl(Shl(Bits(1), 3), 11))
                   ELSE {}
         IN  Or(Or(riscv, imem), Or(core, io))

\* the program's own variables while one computation is followed on its own
Parked ==
    /\ kernels = None
    /\ vm = FALSE
    /\ debug = None
    /\ timeout = FALSE
    /\ mods = 0
    /\ logflags = FALSE
    /\ pc = "parked"
    /\ i = 0
    /\ proc = "alive"
    /\ fatal = "none"
    /\ timed_out = FALSE
    /\ msg = <<>>
    /\ timeout_ev = FALSE
    /\ started_ev = FALSE
    /\ tpc = "off"
    /\ arq = "reset"
    /\ arqOn = 0
    /\ clock = {}
    /\ rocket = [t \in Tiles |-> 0]
    /\ tcu = [t \in Tiles |-> NoTcu]
    /\ ep0 = [t \in Tiles |-> "unknown"]
    /\ halted = <<>>
    /\ binfo = NoBinfo
    /\ image = {}
    /\ argsW = {}
    /\ envW = {}
    /\ mailbox = "stale"
    /\ ready = 0
    /\ terminal = "none"
    /\ quiet = TRUE
    /\ diag = <<>>
    /\ dump = NoDumps

\* one call of _tile_desc: any tile count, any index up to the trailing one
DescInit ==
    /\ Parked
    /\ rx = Idle
    /\ ga = Idle
    /\ prog = Idle
    /\ slots = Idle
    /\ con = Idle
    /\ lay = Idle
    /\ arg = Idle
    /\ \E T \in 1 .. MaxDescTiles, idx \in 0 .. MaxDescTiles, vmf \in BOOLEAN :
          /\ idx <= T
          /\ desc = [at |-> "call", tiles |-> T, vm |-> vmf, idx |-> idx, ret |-> {}]

\* loader.py:199-215  the call returns
TileDesc ==
    /\ desc.at = "call"
    /\ desc' = [desc EXCEPT !.at = "done",
                            !.ret = tile_desc(desc.tiles, desc.vm, desc.idx)]
    /\ UNCHANGED <<progVars, rx, con, lay, arg, ga, prog, slots>>

DescSpec == DescInit /\ [][TileDesc]_vars

\* the attribute bits and the bits below the size field
RISCV_BIT == 6
BOOM_BIT == 11
ROCKET_BIT == 12
NIC_BIT == 13
SERIAL_BIT == 14
IMEM_BIT == 15
SIZE_SHIFT == 28

\* C20: a compute tile's descriptor has bit 6, exactly one core-variant bit
\* (Rocket below index 5, BOOM from 5 on), the NIC and console bits exactly at
\* index 6, and the inline-memory bit with pmp_size >> 12 from bit 28 up exactly
\* when virtual memory is off; the trailing descriptor has only DRAM_SIZE >> 12
\* from bit 28 up, the inline-memory bit and the type tag 1; no other bit is set
C20_DescriptorBits ==
    desc.at = "done" =>
        LET d == desc.ret
            low == d \cap (0 .. (SIZE_SHIFT - 1))
            size == Shr(d, SIZE_SHIFT)
        IN  IF desc.idx < desc.tiles
            THEN /\ RISCV_BIT \in d
                 /\ (ROCKET_BIT \in d) = (desc.idx < 5)
                 /\ (BOOM_BIT \in d) = (desc.idx >= 5)
                 /\ (NIC_BIT \in d) = (desc.idx = 6)
                 /\ (SERIAL_BIT \in d) = (desc.idx = 6)
                 /\ (IMEM_BIT \in d) = ~desc.vm
                 /\ size = IF desc.vm THEN {} ELSE Bits(pmp_size(desc.vm) \div PAGE)
                 /\ low \subseteq {RISCV_BIT, BOOM_BIT, ROCKET_BIT, NIC_BIT,
                                   SERIAL_BIT, IMEM_BIT}
            ELSE /\ size = Bits(DRAM_SIZE.pg)
                 /\ low = {0, IMEM_BIT}

\* the descriptor of tile 6 of eight was computed without virtual memory: a
\* BOOM core with NIC and console and a 64 MiB window
C20_Witness ==
    /\ desc.at = "done"
    /\ desc.idx = 6
    /\ desc.tiles = 8
    /\ ~desc.vm
    /\ desc.ret = {6, 11, 13, 14, 15, 42}

\* ------------------------------------------------------------------ TCUTerm

\* most writes of one console session that are followed
MaxConWrites == 2

\* values a tile stores in the mailbox: chip << 8 | tile, and an endpoint
TileWords == {0, 1, 258}
EpWords == {0, 1, 2}

\* term.py:41  chr(0x1d), the quit key Ctrl+]
QUIT == "0x1d"

\* a str of the characters cs, as sys.stdin.read(8) returns it
Text(cs) == [type |-> "str", chars |-> cs]

\* what stdin delivers to one _getkey: text (other keys alone, the quit key
\* alone, the quit key behind another key in the same read), or a
\* KeyboardInterrupt during the read, which makes the result a list
Keys == {Text(<<"a">>), Text(<<"b">>), Text(<<QUIT>>), Text(<<"a", QUIT>>)}
KeyList == [type |-> "list", chars |-> <<"0x03">>]

\* nothing is pending: select reports stdin as not readable
NoInput == [type |-> "none", chars |-> <<>>]

\* term.py:41  len(bytes) == 1 and bytes[0] == chr(0x1d)
IsQuit(d) == Len(d.chars) = 1 /\ d.chars[1] = QUIT

\* term.py:25-37  after TCUTerm.__init__: both mailbox words are zero
ConInit ==
    /\ Parked
    /\ rx = Idle
    /\ ga = Idle
    /\ prog = Idle
    /\ slots = Idle
    /\ lay = Idle
    /\ arg = Idle
    /\ desc = Idle
    /\ con = [at |-> "loop", tileW |-> 0, epW |-> 0, data |-> NoInput, tile |-> 0,
              writes |-> 0, sends |-> <<>>, inp |-> NoInput, ret |-> "none"]

\* the started tile stores one of the two mailbox words
GuestStore ==
    /\ con.at \notin {"stopped", "raised"}
    /\ \/ \E w \in TileWords : con' = [con EXCEPT !.tileW = w]
       \/ \E w \in EpWords : con' = [con EXCEPT !.epW = w]
    /\ UNCHANGED <<progVars, rx, lay, arg, desc, ga, prog, slots>>

\* term.py:40, 45  should_stop: nothing is pending, return False
ConNone ==
    /\ con.at = "loop"
    /\ con' = [con EXCEPT !.inp = NoInput, !.ret = "false"]
    /\ UNCHANGED <<progVars, rx, lay, arg, desc, ga, prog, slots>>

\* term.py:39-43  should_stop: the quit key alone ends the session
ConQuit ==
    /\ con.at = "loop"
    /\ \E d \in Keys \cup {KeyList} :
          /\ IsQuit(d)
          /\ con' = [con EXCEPT !.at = "stopped", !.inp = d, !.ret = "true"]
    /\ UNCHANGED <<progVars, rx, lay, arg, desc, ga, prog, slots>>

\* term.py:39-44, 58-64  should_stop hands what _getkey returned to _write
ConKey ==
    /\ con.at = "loop"
    /\ con.writes < MaxConWrites
    /\ \E d \in Keys \cup {KeyList} :
          /\ ~IsQuit(d)
          /\ con' = [con EXCEPT !.at = "encode", !.data = d, !.writes = @ + 1,
                                !.inp = d, !.ret = "none"]
    /\ UNCHANGED <<progVars, rx, lay, arg, desc, ga, prog, slots>>

\* term.py:67  data.encode('utf-8'): a list has no encode
ConEncode ==
    /\ con.at = "encode"
    /\ con' = [con EXCEPT !.at = IF con.data = KeyList THEN "raised" ELSE "rd_tile"]
    /\ UNCHANGED <<progVars, rx, lay, arg, desc, ga, prog, slots>>

\* term.py:69  tile = read_u64(SERIAL_ADDR + 0)
ConReadTile ==
    /\ con.at = "rd_tile"
    /\ con' = [con EXCEPT !.at = "rd_ep", !.tile = con.tileW]
    /\ UNCHANGED <<progVars, rx, lay, arg, desc, ga, prog, slots>>

\* utils.py:27-28  send_input(nocif, chip, tile, ep, data)
send_input(chip, tile, ep, data) ==
    [chip |-> chip, tile |-> tile, ep |-> ep, data |-> data]

\* term.py:70-73  ep = read_u64(SERIAL_ADDR + 8); send if it is not zero
ConReadEp ==
    /\ con.at = "rd_ep"
    /\ LET ep == con.epW
       IN  con' = [con EXCEPT
                     !.at = "loop",
                     !.ret = "false",
                     !.sends = IF ep # 0
                               THEN Append(@, send_input(con.tile \div 256,
                                                         con.tile % 256, ep, con.data))
                               ELSE @]
    /\ UNCHANGED <<progVars, rx, lay, arg, desc, ga, prog, slots>>

ConNext ==
    \/ GuestStore \/ ConNone \/ ConQuit \/ ConKey \/ ConEncode \/ ConReadTile
    \/ ConReadEp

ConSpec == ConInit /\ [][ConNext]_vars

\* a write is in progress
InWrite == con.at \in {"encode", "rd_tile", "rd_ep"}

\* the step of a write that reads the endpoint word and returns
EpRead == con.at = "rd_ep" /\ con'.at = "loop"

\* C11: a write while the endpoint word is zero sends nothing, raises no error
\* and leaves nothing behind for a later write; a write while it is not zero
\* performs exactly one send, of its own data, to the chip, tile and endpoint
\* decoded from the two words as that write read them
C11_MailboxWrite ==
    [][/\ (InWrite /\ con.epW = 0) => con'.at # "raised"
       /\ (con.at = "rd_tile" /\ con'.at = "rd_ep") => con'.tile = con.tileW
       /\ (EpRead /\ con.epW = 0) => con'.sends = con.sends
       /\ (EpRead /\ con.epW # 0) =>
              con'.sends = Append(con.sends,
                                  [chip |-> con.tile \div 256, tile |-> con.tile % 256,
                                   ep |-> con.epW, data |-> con.data])
       /\ ~EpRead => con'.sends = con.sends]_vars

\* ------------------------------------------------------- Loader._write_args

\* most arguments of one program, and the tiles a program is loaded for
MaxArgs == 2
MaxArgTile == 1

\* an argument: len(a), the characters, and len(a.encode()), the UTF-8 bytes
Str(c, b) == [chars |-> c, bytes |-> b]

\* arguments the calls are followed with: short and long ASCII strings, and
\* strings of two-byte characters
ArgStrs ==
    {Str(0, 0), Str(7, 7), Str(8, 8), Str(991, 991), Str(992, 992),
     Str(1007, 1007), Str(1008, 1008), Str(4, 8), Str(504, 1008)}

\* "LOG=" + logflags for the --logflags values followed; NoLog without the option
NoLog == Str(0, 0)
LogStrs == {Str(4 + 4, 4 + 4), Str(4 + 980, 4 + 980)}

\* loader.py:138, 193  argv = ENV + 0x400 and the bound ENV + 0x800
ARGV == ENV + 1024
ARGS_END == ENV + 2048

\* x & ~7
AndNot7(x) == x - (x % 8)

\* loader.py:128 with the windows counted from 1
mem_beginFrom1(vmf, tile_idx) == PMP_ADDR + (tile_idx + 1) * pmp_size(vmf)

\* loader.py:128  mem_begin of a tile
mem_begin(vmf, tile_idx) == PMP_ADDR + tile_idx * pmp_size(vmf)

\* one write of the loader into the DRAM: n bytes at address a with value v
Wr(k, idx, a, n, v) == [k |-> k, i |-> idx, a |-> a, n |-> n, v |-> v]

\* one _load_prog: the program's arguments, the log flags and the tile
ArgInit ==
    /\ Parked
    /\ rx = Idle
    /\ ga = Idle
    /\ prog = Idle
    /\ slots = Idle
    /\ con = Idle
    /\ lay = Idle
    /\ desc = Idle
    /\ \E n \in 1 .. MaxArgs, vmf \in BOOLEAN, t \in 0 .. MaxArgTile,
          lg \in {NoLog} \cup LogStrs :
          \E l \in [1 .. n -> ArgStrs] :
             arg = [at |-> "argv", args |-> l, log |-> lg, list |-> l,
                    mem_begin |-> mem_begin(vmf, t), argv |-> ARGV, idx |-> 0,
                    args_addr |-> ARGV + (n + 1) * 8, envp |-> 0, w |-> <<>>]

\* loader.py:187-194  one argument: its pointer, its string, the cursor, the test
ArgStep ==
    /\ arg.at \in {"argv", "envp"}
    /\ arg.idx < Len(arg.list)
    /\ LET a == arg.list[arg.idx + 1]
           off == arg.mem_begin - DRAM_OFF
           next == arg.args_addr + AndNot7(a.chars + 1 + 7)
       IN  arg' = [arg EXCEPT
                     !.w = @ \o <<Wr(<<arg.at, "ptr">>, arg.idx,
                                     arg.argv + off + arg.idx * 8, 8, arg.args_addr),
                                  Wr(<<arg.at, "str">>, arg.idx,
                                     arg.args_addr + off, a.bytes + 1, 0)>>,
                     !.args_addr = next,
                     !.idx = @ + 1,
                     !.at = IF next > ARGS_END THEN "exit" ELSE @]
    /\ UNCHANGED <<progVars, rx, con, lay, desc, ga, prog, slots>>

\* loader.py:196-197, 139-143  the null pointer; then the log flags at envp, or envp = 0
ArgEnd ==
    /\ arg.at \in {"argv", "envp"}
    /\ arg.idx = Len(arg.list)
    /\ LET off == arg.mem_begin - DRAM_OFF
           null == Wr(<<arg.at, "ptr">>, arg.idx, arg.argv + off + arg.idx * 8, 8, 0)
       IN  IF arg.at = "argv" /\ arg.log # NoLog
           THEN arg' = [arg EXCEPT !.w = Append(@, null),
                                   !.at = "envp",
                                   !.list = <<arg.log>>,
                                   !.argv = arg.args_addr,
                                   !.envp = arg.args_addr,
                                   !.idx = 0,
                                   !.args_addr = arg.args_addr + (1 + 1) * 8]
           ELSE arg' = [arg EXCEPT !.w = Append(@, null), !.at = "done"]
    /\ UNCHANGED <<progVars, rx, con, lay, desc, ga, prog, slots>>

ArgNext == ArgStep \/ ArgEnd

ArgSpec == ArgInit /\ [][ArgNext]_vars

\* the writes of the argv call, and those of one kind for argument k
ArgvWrites(kind) == SelectSeq(arg.w, LAMBDA x : x.k = <<"argv", kind>>)
ArgvWrite(kind, k) == ArgvWrites(kind)[k + 1]

\* the byte ranges [a, a + n) of two writes share a byte
Overlap(x, y) == x.a < y.a + y.n /\ y.a < x.a + x.n

\* C18: for an argument list of n strings that fits, n + 1 pointer words are
\* written at argv; pointer k is the address of the null-terminated copy of
\* argument k, the first string is at argv + (n + 1) * 8, each following one at
\* the previous start plus the previous length + 1 rounded up to 8, pointer n
\* is 0, and no string overlaps another string or the pointer table
C18_ArgvLayout ==
    arg.at \in {"envp", "done"} =>
        LET n == Len(arg.args)
            off == arg.mem_begin - DRAM_OFF
            ptr(k) == ArgvWrite("ptr", k)
            str(k) == ArgvWrite("str", k)
        IN  /\ Len(ArgvWrites("ptr")) = n + 1
            /\ Len(ArgvWrites("str")) = n
            /\ \A k \in 0 .. n : ptr(k).a = ARGV + off + k * 8
            /\ \A k \in 0 .. (n - 1) :
                  /\ ptr(k).v + off = str(k).a
                  /\ str(k).n = arg.args[k + 1].bytes + 1
            /\ str(0).a = ARGV + off + (n + 1) * 8
            /\ \A k \in 1 .. (n - 1) :
                  str(k).a = str(k - 1).a + AndNot7(arg.args[k].bytes + 1 + 7)
            /\ ptr(n).v = 0
            /\ \A k \in 0 .. (n - 1) :
                  /\ \A m \in 0 .. n : ~Overlap(str(k), ptr(m))
                  /\ \A m \in 0 .. (n - 1) : m # k => ~Overlap(str(k), str(m))

\* where the pointer tables and the padded strings of the calls made so far end
ArgBytesEnd ==
    LET strs == SelectSeq(arg.w, LAMBDA x : x.k[2] = "str")
        ends == {strs[k].a + AndNot7(strs[k].n + 7) : k \in 1 .. Len(strs)}
               \cup {x.a + x.n : x \in {arg.w[k] : k \in 1 .. Len(arg.w)}}
    IN  CHOOSE e \in ends : \A f \in ends : f <= e

\* C19: marshaling raises "Not enough space for arguments" exactly when the
\* pointer tables and the 8-byte-padded strings end beyond ENV + 0x800
C19_OverflowIffBeyond ==
    /\ arg.at = "exit" => ArgBytesEnd > ARGS_END + (arg.mem_begin - DRAM_OFF)
    /\ arg.at = "done" => ArgBytesEnd <= ARGS_END + (arg.mem_begin - DRAM_OFF)

\* ------------------------------------------------------------- Loader.init

\* most tiles, most modules of any size, and the module count of a long list
MaxLayTiles == 3
MaxLayMods == 2
ManyMods == 51

\* bytes of a program image, loaded from its entry point on
ImageBytes == 8192

\* loader.py:124  the entry point every image must have, as offset from DRAM_OFF
ENTRY_OFF == 12288

\* sizes of module files: empty, one byte, one page, one page and a byte, 2 GiB
ModSizes == {Big(0, 0), Big(0, 1), Big(1, 0), Big(1, 1), DRAM_SIZE}

\* a module "name=path": the length of the name and the size of the file
Mod(name, size) == [name |-> name, size |-> size]
ModName == Str(4, 4)

\* names of 63 and of 64 bytes: the longest that fits the name field with its
\* terminator, and the shortest that does not
ModNames == {ModName, Str(63, 63), Str(64, 64)}

\* module lists: up to MaxLayMods modules of any size, or of one byte under
\* any name, or ManyMods small ones
ModLists ==
    UNION {[1 .. n -> {Mod(ModName, z) : z \in ModSizes}] : n \in 0 .. MaxLayMods}
    \cup UNION {[1 .. n -> {Mod(nm, Big(0, 1)) : nm \in ModNames}] : n \in 1 .. MaxLayMods}
    \cup {[k \in 1 .. ManyMods |-> Mod(ModName, Big(0, 1))]}

\* the one argument of each program followed here: its path
ProgArg == Str(8, 8)

\* utils.py:23-24 with the tag shifted by 31 only, below the top of the offsets
glob_addrShl31(tile, offset) == Or(Shl(Bits(16384 + tile), 31), BigBits(offset))

\* utils.py:23-24  glob_addr(tile, offset) = (0x4000 + tile) << 49 | offset
glob_addr(tile, offset) == Or(Shl(Bits(16384 + tile), 49), BigBits(offset))

\* loader.py:96 without the rounding to 4096
AlignUpNot(x) == x

\* (x + 4096 - 1) & ~(4096 - 1)
AlignUp(x) == Big(BigAdd(x, ToBig(PAGE - 1)).pg, 0)

\* a write of n bytes at the DRAM address a, both below 2^31, by component who
LWr(who, field, idx, a, n, v) ==
    [k |-> <<who, field>>, i |-> idx, a |-> ToBig(a), n |-> ToBig(n), v |-> v]

\* loader.py:33-36 with the windows of all tiles in front of the modules
mods_addrAllTiles(vmf, K, T) == ToBig(PMP_ADDR + T * pmp_size(vmf))

\* loader.py:33-36  mods_addr: behind the windows of the kernel tiles with
\* virtual memory, behind those of all tiles without
mods_addr(vmf, K, T) == ToBig(PMP_ADDR + (IF vmf THEN K ELSE T) * pmp_size(vmf))

\* main.py:57-82 as far as Loader.init depends on it: tiles, vm, programs, modules
LayInit ==
    /\ Parked
    /\ rx = Idle
    /\ ga = Idle
    /\ prog = Idle
    /\ slots = Idle
    /\ con = Idle
    /\ arg = Idle
    /\ desc = Idle
    /\ \E T \in 1 .. MaxLayTiles, vmf \in BOOLEAN, ml \in ModLists :
          \E kern \in 1 .. (T + 1) :
             lay = [at |-> "hdr", T |-> T, vm |-> vmf, K |-> Min(kern, T),
                    mods |-> ml, j |-> 0,
                    mods_addr |-> mods_addr(vmf, Min(kern, T), T),
                    kenv_off |-> KENV_ADDR, eps |-> {}, w |-> <<>>]

\* loader.py:86-91 with len(tiles) as tile_count
LayHeaderTiles ==
    /\ lay.at = "hdr"
    /\ lay' = [lay EXCEPT
                 !.w = <<LWr("boot", "mod_count", 0, lay.kenv_off + 0 * 8, 8,
                             Bits(Len(lay.mods))),
                         LWr("boot", "tile_count", 0, lay.kenv_off + 1 * 8, 8,
                             Bits(lay.T)),
                         LWr("boot", "mem_count", 0, lay.kenv_off + 2 * 8, 8, Bits(1)),
                         LWr("boot", "serv_count", 0, lay.kenv_off + 3 * 8, 8, Bits(0))>>,
                 !.kenv_off = @ + 8 * 4,
                 !.at = IF Len(lay.mods) > 0 THEN "mod" ELSE "descs"]
    /\ UNCHANGED <<progVars, rx, con, arg, desc, ga, prog, slots>>

\* loader.py:86-91  the four counts
LayHeader ==
    /\ lay.at = "hdr"
    /\ lay' = [lay EXCEPT
                 !.w = <<LWr("boot", "mod_count", 0, lay.kenv_off + 0 * 8, 8,
                             Bits(Len(lay.mods))),
                         LWr("boot", "tile_count", 0, lay.kenv_off + 1 * 8, 8,
                             Bits(lay.T + 1)),
                         LWr("boot", "mem_count", 0, lay.kenv_off + 2 * 8, 8, Bits(1)),
                         LWr("boot", "serv_count", 0, lay.kenv_off + 3 * 8, 8, Bits(0))>>,
                 !.kenv_off = @ + 8 * 4,
                 !.at = IF Len(lay.mods) > 0 THEN "mod" ELSE "descs"]
    /\ UNCHANGED <<progVars, rx, con, arg, desc, ga, prog, slots>>

\* loader.py:94-97, 165-173  one module: descriptor, payload, cursor
LayAddMod ==
    /\ lay.at = "mod"
    /\ LET m == lay.mods[lay.j + 1]
           addr == lay.mods_addr
           offset == lay.kenv_off
       IN  lay' = [lay EXCEPT
                     !.w = @ \o <<LWr("boot", "mod_addr", lay.j, offset + 0, 8,
                                      glob_addr(MEM_TILE, addr)),
                                  LWr("boot", "mod_size", lay.j, offset + 8, 8, m.size),
                                  LWr("boot", "mod_name", lay.j, offset + 16,
                                      m.name.bytes + 1, 0),
                                  [k |-> <<"boot", "mod_file">>, i |-> lay.j,
                                   a |-> addr, n |-> m.size, v |-> 0]>>,
                     !.mods_addr = AlignUp(BigAdd(addr, m.size)),
                     !.kenv_off = @ + 80,
                     !.j = IF lay.j + 1 < Len(lay.mods) THEN @ + 1 ELSE 0,
                     !.at = IF lay.j + 1 < Len(lay.mods) THEN "mod" ELSE "descs"]
    /\ UNCHANGED <<progVars, rx, con, arg, desc, ga, prog, slots>>

\* loader.py:100-104  the descriptors of the tiles and of the memory tile
LayDescs ==
    /\ lay.at = "descs"
    /\ lay' = [lay EXCEPT
                 !.w = @ \o [x \in 1 .. (lay.T + 1) |->
                                LWr("boot", "tile_desc", x - 1,
                                    lay.kenv_off + 8 * (x - 1), 8,
                                    tile_desc(lay.T, lay.vm, x - 1))],
                 !.kenv_off = @ + 8 * (lay.T + 1),
                 !.at = "mem"]
    /\ UNCHANGED <<progVars, rx, con, arg, desc, ga, prog, slots>>

\* loader.py:107-109  the memory region behind the modules
LayMem ==
    /\ lay.at = "mem"
    /\ LET mem_start == lay.mods_addr
       IN  lay' = [lay EXCEPT
                     !.w = @ \o <<LWr("boot", "mem_addr", 0, lay.kenv_off + 0, 8,
                                      glob_addr(MEM_TILE, mem_start)),
                                  LWr("boot", "mem_size", 0, lay.kenv_off + 8, 8,
                                      BigSub(DRAM_SIZE, mem_start))>>,
                     !.at = "init"]
    /\ UNCHANGED <<progVars, rx, con, arg, desc, ga, prog, slots>>

\* loader.py:55-82 with the endpoint of a tile set to the window behind its own
LayInitTileNext ==
    /\ lay.at = "init"
    /\ LET loaded == lay.j < lay.K
           mb == mem_begin(lay.vm, lay.j + 1)
       IN  lay' = [lay EXCEPT
                     !.eps = IF loaded \/ ~lay.vm
                             THEN @ \cup {[tile |-> lay.j, a |-> ToBig(mb),
                                           n |-> ToBig(pmp_size(lay.vm))]}
                             ELSE @,
                     !.j = IF lay.j + 1 < lay.T THEN @ + 1 ELSE 0,
                     !.at = IF lay.j + 1 < lay.T THEN "init" ELSE "load"]
    /\ UNCHANGED <<progVars, rx, con, arg, desc, ga, prog, slots>>

\* loader.py:55-82  _init_tile: the PMP endpoint of a loaded tile, or of any
\* tile without virtual memory
LayInitTile ==
    /\ lay.at = "init"
    /\ LET loaded == lay.j < lay.K
           mb == mem_begin(lay.vm, lay.j)
       IN  lay' = [lay EXCEPT
                     !.eps = IF loaded \/ ~lay.vm
                             THEN @ \cup {[tile |-> lay.j, a |-> ToBig(mb),
                                           n |-> ToBig(pmp_size(lay.vm))]}
                             ELSE @,
                     !.j = IF lay.j + 1 < lay.T THEN @ + 1 ELSE 0,
                     !.at = IF lay.j + 1 < lay.T THEN "init" ELSE "load"]
    /\ UNCHANGED <<progVars, rx, con, arg, desc, ga, prog, slots>>

\* loader.py:135 with the boot-info pointer handed to every tile
kenv_ofAll(tile_idx) == glob_addr(MEM_TILE, ToBig(KENV_ADDR))

\* loader.py:135  kenv = glob_addr(MEM_TILE, KENV_ADDR) if tile_idx == 0 else 0
kenv_of(tile_idx) ==
    IF tile_idx = 0 THEN glob_addr(MEM_TILE, ToBig(KENV_ADDR)) ELSE Bits(0)

\* loader.py:111-163  _load_prog: image, arguments, jump, environment block
LayLoadProg ==
    /\ lay.at = "load"
    /\ LET tile_idx == lay.j
           mb == mem_begin(lay.vm, tile_idx)
           off == mb - DRAM_OFF
           kenv == kenv_of(tile_idx)
           dram_env == ENV + mb - DRAM_OFF
           args_addr == ARGV + (1 + 1) * 8
       IN  lay' = [lay EXCEPT
                     !.w = @ \o <<LWr("loader", "elf", tile_idx,
                                      DRAM_OFF + ENTRY_OFF + off, ImageBytes, 0),
                                  LWr("loader", "argv_ptr", tile_idx,
                                      ARGV + off, 8, Bits(args_addr)),
                                  LWr("loader", "argv_str", tile_idx,
                                      args_addr + off, ProgArg.bytes + 1, 0),
                                  LWr("loader", "argv_ptr", tile_idx,
                                      ARGV + off + 8, 8, Bits(0)),
                                  LWr("loader", "jump", tile_idx, dram_env - 4096, 8,
                                      Bits(12399)),
                                  LWr("loader", "platform", tile_idx, dram_env + 0, 8,
                                      Bits(1)),
                                  LWr("loader", "tile_id", tile_idx, dram_env + 8, 8,
                                      Bits(tile_idx)),
                                  LWr("loader", "tile_desc", tile_idx, dram_env + 16, 8,
                                      tile_desc(lay.T, lay.vm, tile_idx)),
                                  LWr("loader", "argc", tile_idx, dram_env + 24, 8,
                                      Bits(1)),
                                  LWr("loader", "argv", tile_idx, dram_env + 32, 8,
                                      Bits(ARGV)),
                                  LWr("loader", "envp", tile_idx, dram_env + 40, 8,
                                      Bits(0)),
                                  LWr("loader", "kenv", tile_idx, dram_env + 48, 8,
                                      kenv),
                                  LWr("loader", "raw_tile_count", tile_idx,
                                      dram_env + 56, 8, Bits(lay.T + 1)),
                                  LWr("loader", "tile_ids", tile_idx, dram_env + 64,
                                      8 * (lay.T + 1), 0)>>,
                     !.j = IF lay.j + 1 < lay.K THEN @ + 1 ELSE 0,
                     !.at = IF lay.j + 1 < lay.K THEN "load" ELSE "term"]
    /\ UNCHANGED <<progVars, rx, con, arg, desc, ga, prog, slots>>

\* term.py:35-36  TCUTerm.__init__ clears the two mailbox words
LayTerm ==
    /\ lay.at = "term"
    /\ lay' = [lay EXCEPT
                 !.w = @ \o <<LWr("console", "tile", 0, SERIAL_ADDR + 0, 8, Bits(0)),
                              LWr("console", "ep", 0, SERIAL_ADDR + 8, 8, Bits(0))>>,
                 !.at = "done"]
    /\ UNCHANGED <<progVars, rx, con, arg, desc, ga, prog, slots>>

LayNext ==
    \/ LayHeader \/ LayAddMod \/ LayDescs \/ LayMem
    \/ LayInitTile \/ LayLoadProg \/ LayTerm

LaySpec == LayInit /\ [][LayNext]_vars

\* the boot info is complete, and Loader.init and the console are set up
BootDone == lay.at \in {"init", "load", "term", "done"}
LayDone == lay.at = "done"

\* the writes of one field by one component, in the order they were made
LayWrites(who, field) == SelectSeq(lay.w, LAMBDA x : x.k = <<who, field>>)

\* the writes of one component
WritesBy(who) == {x \in {lay.w[k] : k \in 1 .. Len(lay.w)} : x.k[1] = who}

\* a < b for two words
WordLt(a, b) == \E x \in b \ a : \A y \in a \ b : y < x

\* the first byte behind a range, and a range lying inside [lo, hi)
EndOf(x) == BigAdd(x.a, x.n)
Inside(x, lo, hi) == BigLe(lo, x.a) /\ BigLe(EndOf(x), hi) /\ x.n.pg >= 0

\* two ranges share no byte
Disjoint(x, y) == BigLe(EndOf(x), y.a) \/ BigLe(EndOf(y), x.a)

\* C12: the header holds module_count = N, tile_count = T + 1, mem_count = 1
\* and service_count = 0, and behind it lie exactly N module descriptors of 80
\* bytes, then T + 1 descriptor words of 8 bytes, then one memory-region
\* record of 16 bytes, contiguous and written in that order
C12_CountsMatchRecords ==
    BootDone =>
        LET N == Len(lay.mods)
            T == lay.T
            W(f) == LayWrites("boot", f)
            At(x, o) == x.a = ToBig(KENV_ADDR + o)
            blob == SelectSeq(lay.w, LAMBDA x : x.k[1] = "boot" /\ x.k[2] # "mod_file")
            descs == 32 + 80 * N
            mem == descs + 8 * (T + 1)
        IN  /\ \A f \in {"mod_count", "tile_count", "mem_count", "serv_count",
                         "mem_addr", "mem_size"} : Len(W(f)) = 1
            /\ W("mod_count")[1].v = Bits(N) /\ At(W("mod_count")[1], 0)
            /\ W("tile_count")[1].v = Bits(T + 1) /\ At(W("tile_count")[1], 8)
            /\ W("mem_count")[1].v = Bits(1) /\ At(W("mem_count")[1], 16)
            /\ W("serv_count")[1].v = Bits(0) /\ At(W("serv_count")[1], 24)
            /\ \A f \in {"mod_addr", "mod_size", "mod_name"} : Len(W(f)) = N
            /\ \A j \in 0 .. (N - 1) :
                  /\ At(W("mod_addr")[j + 1], 32 + 80 * j)
                  /\ At(W("mod_size")[j + 1], 32 + 80 * j + 8)
                  /\ At(W("mod_name")[j + 1], 32 + 80 * j + 16)
            /\ Len(W("tile_desc")) = T + 1
            /\ \A x \in 0 .. T : At(W("tile_desc")[x + 1], descs + 8 * x)
            /\ At(W("mem_addr")[1], mem)
            /\ At(W("mem_size")[1], mem + 8)
            /\ \A k \in 1 .. (Len(blob) - 1) : BigLt(blob[k].a, blob[k + 1].a)

\* a boot info with two modules and three tiles is complete
C12_Witness ==
    /\ BootDone
    /\ Len(lay.mods) = 2
    /\ lay.T = 3
    /\ Len(LayWrites("boot", "tile_desc")) = 4

\* C13: the global addresses recorded for successive modules are 4 KiB-aligned
\* and strictly increasing, whatever the payload sizes (0 included), and each
\* payload ends at or before the address of the next module
C13_ModuleAddresses ==
    BootDone =>
        LET N == Len(lay.mods)
            addr == LayWrites("boot", "mod_addr")
            file == LayWrites("boot", "mod_file")
        IN  \A j \in 1 .. N :
               /\ addr[j].v = glob_addr(MEM_TILE, file[j].a)
               /\ addr[j].v \cap (0 .. 11) = {}
               /\ file[j].n = lay.mods[j].size
               /\ j < N => /\ WordLt(addr[j].v, addr[j + 1].v)
                           /\ BigLe(EndOf(file[j]), file[j + 1].a)

\* C14: without virtual memory the boot descriptor is at 0, the mailbox at
\* 4 KiB, the window of tile i at PMP_ADDR + i * W for each of the T tiles, and
\* the module area at PMP_ADDR + T * W, rounded up to 4 KiB
C14_LayoutNoVm ==
    (LayDone /\ ~lay.vm) =>
        LET W == pmp_size(FALSE)
            T == lay.T
            area == AlignUp(ToBig(PMP_ADDR + T * W))
        IN  /\ LayWrites("boot", "mod_count")[1].a = ToBig(0)
            /\ \A x \in WritesBy("console") :
                  Inside(x, ToBig(4096), ToBig(4096 + 4096))
            /\ PMP_ADDR = 4096 + 4096
            /\ lay.eps = {[tile |-> t, a |-> ToBig(PMP_ADDR + t * W), n |-> ToBig(W)] :
                             t \in 0 .. (T - 1)}
            /\ \A x \in WritesBy("loader") :
                  Inside(x, ToBig(PMP_ADDR + x.i * W), ToBig(PMP_ADDR + (x.i + 1) * W))
            /\ IF Len(lay.mods) > 0
               THEN LayWrites("boot", "mod_file")[1].a = area
               ELSE LayWrites("boot", "mem_addr")[1].v = glob_addr(MEM_TILE, area)

\* three tiles without virtual memory: the module area starts at 0x0C002000
C14_Witness ==
    /\ LayDone
    /\ ~lay.vm
    /\ lay.T = 3
    /\ Len(lay.mods) > 0
    /\ LayWrites("boot", "mod_file")[1].a = ToBig(201334784)

\* the regions of one run: boot descriptor, mailbox, tile windows, module
\* payloads and the announced memory region
Regions ==
    LET mem == LayWrites("boot", "mem_size")[1].v
        start == BigSub(DRAM_SIZE, mem)
        files == LayWrites("boot", "mod_file")
    IN  {<<"kenv", 0, ToBig(KENV_ADDR), ToBig(KENV_SIZE)>>,
         <<"serial", 0, ToBig(SERIAL_ADDR), ToBig(SERIAL_SIZE)>>,
         <<"mem", 0, start, mem>>}
        \cup {<<"pmp", e.tile, e.a, e.n>> : e \in lay.eps}
        \cup {<<"mod", j, files[j].a, files[j].n>> : j \in 1 .. Len(files)}

\* a region as a range
Range(r) == [a |-> r[3], n |-> r[4]]

\* C15: the boot-descriptor region, the mailbox, the tile windows, the module
\* payloads and the final memory region are pairwise disjoint and inside
\* DRAM_SIZE, and the announced size DRAM_SIZE - mem_start is not negative
C15_RegionsFit ==
    LayDone =>
        /\ \A r \in Regions : Inside(Range(r), ToBig(0), DRAM_SIZE)
        /\ \A r, q \in Regions : r # q => Disjoint(Range(r), Range(q))
        /\ LayWrites("boot", "mem_size")[1].v.pg >= 0

\* C16: the Boot-Info Builder writes only inside the 4 KiB boot-descriptor
\* region and, for payloads, the module area; the console writes only inside
\* the mailbox region; the writes for tile i stay inside the window of tile i
C16_WritersApart ==
    LayDone =>
        LET mem == LayWrites("boot", "mem_size")[1].v
            mem_start == BigSub(DRAM_SIZE, mem)
            T == IF lay.vm THEN lay.K ELSE lay.T
            area == ToBig(PMP_ADDR + T * pmp_size(lay.vm))
        IN  /\ \A x \in WritesBy("boot") :
                  IF x.k[2] = "mod_file"
                  THEN Inside(x, area, mem_start)
                  ELSE Inside(x, ToBig(KENV_ADDR), ToBig(KENV_ADDR + KENV_SIZE))
            /\ \A x \in WritesBy("console") :
                  Inside(x, ToBig(SERIAL_ADDR), ToBig(SERIAL_ADDR + SERIAL_SIZE))
            /\ \A x \in WritesBy("loader") :
                  Inside(x, ToBig(mem_begin(lay.vm, x.i)),
                         ToBig(mem_begin(lay.vm, x.i) + pmp_size(lay.vm)))

\* C17: after loading, the environment block of tile 0 holds the non-zero
\* glob_addr(MEM_TILE, KENV_ADDR) as boot-info pointer and the block of every
\* other loaded tile holds 0
C17_OneBootInfoPointer ==
    lay.at \in {"term", "done"} =>
        LET kenv == LayWrites("loader", "kenv")
        IN  /\ Len(kenv) = lay.K
            /\ \A k \in 1 .. Len(kenv) :
                  /\ kenv[k].i = k - 1
                  /\ kenv[k].a = ToBig(mem_begin(lay.vm, k - 1) + 4096 + 48)
                  /\ kenv[k].v =
                        IF k = 1
                        THEN Or(Shl(Bits(16384 + MEM_TILE), 49), Bits(KENV_ADDR))
                        ELSE Bits(0)
            /\ Cardinality({k \in 1 .. Len(kenv) : kenv[k].v # Bits(0)}) = 1

\* three tiles were loaded: tile 0 got the pointer, tiles 1 and 2 got 0
C17_Witness ==
    /\ LayDone
    /\ lay.K = 3
    /\ LayWrites("loader", "kenv")[1].v # Bits(0)
    /\ LayWrites("loader", "kenv")[3].v = Bits(0)

\* --------------------------------------------------------- utils.glob_addr

\* largest tile id one call is followed with; MEM_TILE is among them
MaxGlobTile == 8

\* offsets of the calls: the pages at both ends of the DRAM, the bytes at both
\* ends of a page, up to DRAM_SIZE itself
GlobOffsets ==
    {o \in {Big(p, b) : p \in {0, 1, 2, DRAM_SIZE.pg - 1, DRAM_SIZE.pg},
                         b \in {0, 1, PAGE - 1}} : BigLe(o, DRAM_SIZE)}

\* one call of glob_addr
GlobInit ==
    /\ Parked
    /\ rx = Idle
    /\ con = Idle
    /\ lay = Idle
    /\ arg = Idle
    /\ desc = Idle
    /\ prog = Idle
    /\ slots = Idle
    /\ \E t \in 0 .. MaxGlobTile, o \in GlobOffsets :
          ga = [at |-> "call", tile |-> t, offset |-> o, ret |-> {}]

\* utils.py:23-24  the call returns
GlobAddr ==
    /\ ga.at = "call"
    /\ ga' = [ga EXCEPT !.at = "done", !.ret = glob_addr(ga.tile, ga.offset)]
    /\ UNCHANGED <<progVars, rx, con, lay, arg, desc, prog, slots>>

GlobSpec == GlobInit /\ [][GlobAddr]_vars

\* the number whose binary digits are w, for w below bit 31
Val(w) ==
    LET upto[k \in 0 .. 31] ==
            IF k = 0 THEN 0
            ELSE upto[k - 1] + (IF (k - 1) \in w THEN Pow2(k - 1) ELSE 0)
    IN  upto[31]

\* value mod 2^49 and value >> 49, the two fields the guest takes apart
TAG_SHIFT == 49
OffsetField(w) == {b \in w : b < TAG_SHIFT}
TagField(w) == Shr(w, TAG_SHIFT)

\* the offset field as a number of pages and bytes
OffsetOf(w) ==
    Big(Val(Shr(OffsetField(w), 12)), Val({b \in OffsetField(w) : b < 12}))

\* C21: for every tile id and every offset from 0 up to DRAM_SIZE, the word
\* glob_addr returns fits in 64 bits, its bits from 49 up are 0x4000 + tile,
\* its low 49 bits are the offset (no offset bit reaches the tag), and no
\* other pair of arguments yields the same word
C21_GlobAddrRoundTrip ==
    ga.at = "done" =>
        /\ ga.ret \subseteq 0 .. 63
        /\ BigBits(ga.offset) \subseteq 0 .. (TAG_SHIFT - 1)
        /\ Val(TagField(ga.ret)) - 16384 = ga.tile
        /\ OffsetOf(ga.ret) = ga.offset
        /\ \A t \in 0 .. MaxGlobTile, o \in GlobOffsets :
              glob_addr(t, o) = ga.ret => t = ga.tile /\ o = ga.offset

\* the memory tile with the largest offset: tag bits 63 and 52, offset bit 31
C21_Witness ==
    /\ ga.at = "done"
    /\ ga.tile = MEM_TILE
    /\ ga.offset = DRAM_SIZE
    /\ ga.ret = {31, 52, 63}

\* -------------------------------------------------------- Loader._load_prog

\* most tiles of a platform whose tile is loaded
MaxProgTiles == 2

\* a write of one word with the number n as its value
U64(k, idx, a, n) == Wr(<<"env", k>>, idx, a, 8, Bits(n))

\* loader.py:184-197  _write_args from argument idx on: the pointer and the
\* string of each argument, the test of the cursor, then the null pointer;
\* ret is the cursor, over says the call ended in sys.exit
RECURSIVE write_args_from(_, _, _, _, _, _)
write_args_from(kind, list, idx, argv, args_addr, off) ==
    IF idx = Len(list)
    THEN [w |-> <<Wr(<<kind, "ptr">>, idx, argv + off + idx * 8, 8, Bits(0))>>,
          ret |-> args_addr, over |-> FALSE]
    ELSE LET a == list[idx + 1]
             next == args_addr + AndNot7(a.chars + 1 + 7)
             here == <<Wr(<<kind, "ptr">>, idx, argv + off + idx * 8, 8,
                          Bits(args_addr)),
                       Wr(<<kind, "str">>, idx, args_addr + off, a.bytes + 1, {})>>
         IN  IF next > ARGS_END
             THEN [w |-> here, ret |-> next, over |-> TRUE]
             ELSE LET r == write_args_from(kind, list, idx + 1, argv, next, off)
                  IN  [w |-> here \o r.w, ret |-> r.ret, over |-> r.over]

\* loader.py:185-186  argc = len(args); args_addr = argv + (argc + 1) * 8
write_args(kind, list, argv, mb) ==
    write_args_from(kind, list, 0, argv, argv + (Len(list) + 1) * 8, mb - DRAM_OFF)

\* arguments the runs are followed with: short ones, one of two-byte
\* characters, and one that does not fit
ProgStrs == {Str(7, 7), Str(8, 8), Str(4, 8), Str(1008, 1008)}

\* one tile, its program's arguments and log flags, and the entry of its ELF
\* file; w is every write into the DRAM so far, once those of the first run
ProgInit ==
    /\ Parked
    /\ rx = Idle
    /\ con = Idle
    /\ lay = Idle
    /\ arg = Idle
    /\ desc = Idle
    /\ ga = Idle
    /\ slots = Idle
    /\ \E n \in 1 .. MaxArgs, vmf \in BOOLEAN, T \in 1 .. MaxProgTiles,
          lg \in {NoLog} \cup LogStrs, ok \in BOOLEAN :
          \E l \in [1 .. n -> ProgStrs], t \in 0 .. (T - 1) :
             prog = [at |-> "start", run |-> 1, tile |-> t, tiles |-> T, vm |-> vmf,
                     args |-> l, log |-> lg, entry_ok |-> ok, clock |-> 0,
                     envp |-> 0, w |-> <<>>, once |-> <<>>]

\* loader.py:116, 122-126  pm.start(); a wrong entry point ends the process
ProgStart ==
    /\ prog.at = "start"
    /\ prog' = [prog EXCEPT !.clock = @ + 1,
                            !.at = IF prog.entry_ok THEN "elf" ELSE "exit"]
    /\ UNCHANGED <<progVars, rx, con, lay, arg, desc, ga, slots>>

\* loader.py:128-131  write_elf puts the image into the tile's window
ProgElf ==
    /\ prog.at = "elf"
    /\ LET mb == mem_begin(prog.vm, prog.tile)
       IN  prog' = [prog EXCEPT
                      !.w = Append(@, Wr(<<"elf", "image">>, 0,
                                         DRAM_OFF + ENTRY_OFF + (mb - DRAM_OFF),
                                         ImageBytes, {})),
                      !.at = "argv"]
    /\ UNCHANGED <<progVars, rx, con, lay, arg, desc, ga, slots>>

\* loader.py:138-139 with the arguments of a later run put one word further
ProgArgvResume ==
    /\ prog.at = "argv"
    /\ LET r == write_args("argv", prog.args,
                           IF prog.run = 1 THEN ARGV ELSE ARGV + 8,
                           mem_begin(prog.vm, prog.tile))
       IN  prog' = [prog EXCEPT !.w = @ \o r.w,
                                !.envp = r.ret,
                                !.at = IF r.over THEN "exit" ELSE "envp"]
    /\ UNCHANGED <<progVars, rx, con, lay, arg, desc, ga, slots>>

\* loader.py:138-139  envp = self._write_args(dram, args, argv, mem_begin)
ProgArgv ==
    /\ prog.at = "argv"
    /\ LET r == write_args("argv", prog.args, ARGV, mem_begin(prog.vm, prog.tile))
       IN  prog' = [prog EXCEPT !.w = @ \o r.w,
                                !.envp = r.ret,
                                !.at = IF r.over THEN "exit" ELSE "envp"]
    /\ UNCHANGED <<progVars, rx, con, lay, arg, desc, ga, slots>>

\* loader.py:140-143  the log flags at envp, or envp = 0
ProgEnvp ==
    /\ prog.at = "envp"
    /\ IF prog.log # NoLog
       THEN LET r == write_args("envp", <<prog.log>>, prog.envp,
                                mem_begin(prog.vm, prog.tile))
            IN  prog' = [prog EXCEPT !.w = @ \o r.w,
                                     !.at = IF r.over THEN "exit" ELSE "env"]
       ELSE prog' = [prog EXCEPT !.envp = 0, !.at = "env"]
    /\ UNCHANGED <<progVars, rx, con, lay, arg, desc, ga, slots>>

\* loader.py:146 without the origin of the tile's address space taken off
dram_env_ofWindow(vmf, tile_idx) == ENV + mem_begin(vmf, tile_idx)

\* loader.py:146  dram_env = ENV + mem_begin - DRAM_OFF
dram_env_of(vmf, tile_idx) == ENV + mem_begin(vmf, tile_idx) - DRAM_OFF

\* loader.py:146-161  the jump in front of the environment, then its words
ProgEnv ==
    /\ prog.at = "env"
    /\ LET tile_idx == prog.tile
           dram_env == dram_env_of(prog.vm, tile_idx)
           ids == [t \in 1 .. (prog.tiles + 1) |->
                      Wr(<<"env", "tile_ids">>, t - 1,
                         dram_env + 64 + (t - 1) * 8, 8, {})]
       IN  prog' = [prog EXCEPT
                      !.w = @ \o <<U64("jump", 0, dram_env - 4096, 12399),
                                   U64("platform", 0, dram_env + 0, 1),
                                   U64("tile_id", 0, dram_env + 8, tile_idx),
                                   Wr(<<"env", "tile_desc">>, 0, dram_env + 16, 8,
                                      tile_desc(prog.tiles, prog.vm, tile_idx)),
                                   U64("argc", 0, dram_env + 24, Len(prog.args)),
                                   U64("argv", 0, dram_env + 32, ARGV),
                                   U64("envp", 0, dram_env + 40, prog.envp),
                                   Wr(<<"env", "kenv">>, 0, dram_env + 48, 8,
                                      kenv_of(tile_idx)),
                                   U64("raw_tile_count", 0, dram_env + 56,
                                       prog.tiles + 1)>> \o ids,
                      !.at = "done"]
    /\ UNCHANGED <<progVars, rx, con, lay, arg, desc, ga, slots>>

\* the same steps once more, for the same tile with the same inputs
ProgAgain ==
    /\ prog.at \in {"done", "exit"}
    /\ prog.run = 1
    /\ prog' = [prog EXCEPT !.run = 2, !.at = "start", !.once = prog.w]
    /\ UNCHANGED <<progVars, rx, con, lay, arg, desc, ga, slots>>

ProgNext ==
    \/ ProgStart \/ ProgElf \/ ProgArgv \/ ProgEnvp \/ ProgEnv \/ ProgAgain

ProgSpec == ProgInit /\ [][ProgNext]_vars

\* the byte at address p after the writes w: what the last write covering it
\* put there, or the byte the DRAM held before
ByteAt(w, p) ==
    LET ks == {k \in 1 .. Len(w) : w[k].a <= p /\ p < w[k].a + w[k].n}
    IN  IF ks = {}
        THEN [k |-> <<"dram", "before">>, i |-> 0, v |-> {}, o |-> p]
        ELSE LET k == CHOOSE x \in ks : \A y \in ks : y <= x
             IN  [k |-> w[k].k, i |-> w[k].i, v |-> w[k].v, o |-> p - w[k].a]

\* the addresses at which a write of w begins or ends
Ends(w) == UNION {{w[k].a, w[k].a + w[k].n} : k \in 1 .. Len(w)}

\* the DRAM holds the same bytes after the writes w1 as after the writes w2
SameMemory(w1, w2) ==
    \A p \in Ends(w1) \cup Ends(w2) : ByteAt(w1, p) = ByteAt(w2, p)

\* the second run has ended, as the first did
RanTwice == prog.run = 2 /\ prog.at \in {"done", "exit"}

BringUpPcs == PrePcs \cup InitPcs \cup {"arq_on", "start"}

\* the teardown of a run whose loop ended without timed_out (STOPPED)
StoppedTeardown == pc \in TeardownPcs /\ ~timed_out

C24_ReadyWrittenOnce ==
    pc \notin BringUpPcs \cup {"ready"} => ready = 1

\* C24: .ready is written at most once, only with --debug, only after the last
\* tile start; with --debug it is written before the console is set up and
\* the run loop begins, without --debug it is never written; it is never
\* written in a run that ended in a fatal condition
C24_ReadyOnlyWithDebug ==
    /\ ready <= 1
    /\ ready = 1 => debug # None /\ pc \notin BringUpPcs \cup {"ready"}
    /\ pc \notin BringUpPcs \cup {"ready"} => ready = (IF debug # None THEN 1 ELSE 0)
    /\ fatal # "none" => ready = 0

\* the run loop of a run with --debug
C24_Witness ==
    /\ InTry
    /\ debug # None
    /\ ready = 1

LoadPcs == {"lp_start", "lp_entry", "lp_elf", "lp_argv", "lp_envp", "lp_env"}

\* _init_tile has returned for tile t
Initialised(t) ==
    /\ tcu[t].reset /\ tcu[t].trace /\ tcu[t].features /\ tcu[t].inval
    /\ ep0[t] = (IF Loaded(t) \/ ~vm THEN "pmp" ELSE "invalid")

\* C27: the steps of _init_tile are made in the order reset, trace enable,
\* features, invalidation, installation at slot 0; and _init_tile has
\* returned for every tile when the load loop is entered and whenever a
\* tile's image, arguments or environment block has been written
C27_InitBeforeLoad ==
    /\ \A t \in Tiles :
          /\ tcu[t].trace => tcu[t].reset
          /\ tcu[t].features => tcu[t].trace
          /\ tcu[t].inval => tcu[t].features
          /\ ep0[t] # "unknown" => tcu[t].inval
          /\ ep0[t] = "pmp" => Loaded(t) \/ ~vm
    /\ (pc \in LoadPcs \/ image # {} \/ argsW # {} \/ envW # {}) =>
          \A t \in Tiles : Initialised(t)

\* the first write of the load loop is about to be made, with a tile that
\* has no window of its own
C27_Witness ==
    /\ pc = "lp_elf"
    /\ i = 0
    /\ image = {}
    /\ \A t \in Tiles : Initialised(t)
    /\ \E t \in Tiles : ep0[t] = "invalid"

\* ------------------------------------------- Loader.init: the module area

\* the address at which the module area begins: that of the first module
\* payload, or of the announced memory region when there is no module
AreaStart(area) ==
    IF Len(lay.mods) > 0
    THEN LayWrites("boot", "mod_file")[1].a = area
    ELSE LayWrites("boot", "mem_addr")[1].v = glob_addr(MEM_TILE, area)

\* Loader.init has returned with virtual memory and fewer programs than tiles
VmFewPrograms == LayDone /\ lay.vm /\ lay.K < lay.T

\* C26 as stated: with virtual memory and K programs for T > K tiles only the
\* tiles below K have a PMP endpoint, and the module area begins at
\* PMP_ADDR + T * pmp_size
C26_AreaBehindAllTiles ==
    VmFewPrograms =>
        /\ {e.tile : e \in lay.eps} = 0 .. (lay.K - 1)
        /\ AreaStart(ToBig(PMP_ADDR + lay.T * pmp_size(TRUE)))

\* C26: with virtual memory and K programs for T > K tiles only the tiles
\* below K have a PMP endpoint, no space is kept for the others, and the
\* module area begins at PMP_ADDR + K * pmp_size, behind the last window
C26_AreaBehindKernelTiles ==
    VmFewPrograms =>
        /\ {e.tile : e \in lay.eps} = 0 .. (lay.K - 1)
        /\ AreaStart(ToBig(PMP_ADDR + lay.K * pmp_size(TRUE)))
        /\ \A e \in lay.eps :
              BigLe(EndOf(e), ToBig(PMP_ADDR + lay.K * pmp_size(TRUE)))

\* one program on three tiles with virtual memory: the first module is at
\* 0x01002000, where the window of tile 1 would begin
C26_Witness ==
    /\ VmFewPrograms
    /\ lay.K = 1
    /\ lay.T = 3
    /\ Len(lay.mods) > 0
    /\ LayWrites("boot", "mod_file")[1].a = ToBig(16785408)

\* --------------------------------------- Loader.init: the memory region record

\* C30: the memory record is written once; its address word is
\* glob_addr(MEM_TILE, start), where start is the first 4 KiB boundary at or
\* behind the end of the last module payload, or the base of the module area
\* without modules; its size is DRAM_SIZE - start; the region shares no byte
\* with a tile window or a module payload, and for a module list that ends
\* inside the DRAM it ends at DRAM_SIZE
C30_MemoryRegion ==
    LayDone =>
        LET files == LayWrites("boot", "mod_file")
            N == Len(files)
            base == mods_addr(lay.vm, lay.K, lay.T)
            end == IF N = 0 THEN base ELSE EndOf(files[N])
            addr == LayWrites("boot", "mem_addr")[1].v
            size == LayWrites("boot", "mem_size")[1].v
            start == OffsetOf(addr)
            region == [a |-> start, n |-> size]
        IN  /\ Len(LayWrites("boot", "mem_addr")) = 1
            /\ Len(LayWrites("boot", "mem_size")) = 1
            /\ addr = glob_addr(MEM_TILE, start)
            /\ start.off = 0
            /\ BigLe(end, start)
            /\ BigLt(start, BigAdd(end, ToBig(PAGE)))
            /\ N = 0 => start = base
            /\ size = BigSub(DRAM_SIZE, start)
            /\ \A e \in lay.eps : Disjoint(region, e)
            /\ \A j \in 1 .. N : Disjoint(region, files[j])
            /\ BigLe(end, DRAM_SIZE) => EndOf(region) = DRAM_SIZE /\ size.pg >= 0

\* one tile without virtual memory, a module of a page and a byte and one of
\* a byte: the region starts three pages behind the window, at 0x04005000
C30_Witness ==
    /\ LayDone
    /\ lay.T = 1
    /\ ~lay.vm
    /\ Len(lay.mods) = 2
    /\ lay.mods[1].size = Big(1, 1)
    /\ lay.mods[2].size = Big(0, 1)
    /\ LayWrites("boot", "mem_addr")[1].v = glob_addr(MEM_TILE, Big(16389, 0))
    /\ LayWrites("boot", "mem_size")[1].v = Big(524288 - 16389, 0)

\* ------------------------------------------------- TCUTerm.should_stop

\* the characters of what was pending, and of what a send carried
Chars(d) == {d.chars[k] : k \in 1 .. Len(d.chars)}

\* a call of should_stop has returned
Returned == con.at \in {"loop", "stopped"} /\ con.ret # "none"

\* C29: a call of should_stop returns (it does not raise); it has returned
\* True exactly when what was pending holds the quit key; no send carries
\* the quit key; pending input without the quit key went into one write;
\* with nothing pending the call returned False
C29_QuitKeyStops ==
    /\ con.at # "raised"
    /\ Returned => (con.ret = "true" <=> QUIT \in Chars(con.inp))
    /\ \A k \in 1 .. Len(con.sends) : QUIT \notin Chars(con.sends[k].data)
    /\ (Returned /\ con.inp = NoInput) => con.ret = "false"

\* -------------------------------------------------------- Loader._init_tile

\* config/default.py:12  endpoint slots of a tile's TCU on the hardware target
NUM_EPS == 128

\* tiles one call is followed for
MaxSlotTile == 1

\* EP.invalid(), and a slot that still holds what an earlier run left
InvalidEp == [kind |-> "invalid"]
StaleEp == [kind |-> "stale"]

\* loader.py:75-81  the memory endpoint: target, owner, flags, address, size
MemEP(chip_tile, act, flags, addr, size) ==
    [kind |-> "mem", target |-> chip_tile, act |-> act, flags |-> flags,
     addr |-> addr, size |-> size]

\* the slots before the call: all invalid, all left over, or one left over at
\* either end
SlotStates ==
    {[ep \in 0 .. (NUM_EPS - 1) |-> InvalidEp],
     [ep \in 0 .. (NUM_EPS - 1) |-> StaleEp],
     [ep \in 0 .. (NUM_EPS - 1) |-> IF ep = 0 THEN StaleEp ELSE InvalidEp],
     [ep \in 0 .. (NUM_EPS - 1) |-> IF ep = NUM_EPS - 1 THEN StaleEp ELSE InvalidEp]}

\* one call of _init_tile: the tile, whether it is loaded, self.vm
SlotInit ==
    /\ Parked
    /\ rx = Idle
    /\ con = Idle
    /\ lay = Idle
    /\ arg = Idle
    /\ desc = Idle
    /\ ga = Idle
    /\ prog = Idle
    /\ \E t \in 0 .. MaxSlotTile, ld \in BOOLEAN, vmf \in BOOLEAN, e \in SlotStates :
          slots = [at |-> "reset", tile |-> t, loaded |-> ld, vm |-> vmf, ep |-> 0,
                   eps |-> e, did |-> <<>>]

\* loader.py:56-57  tcu_reset: the command log and the registers, not the EPs
SlotReset ==
    /\ slots.at = "reset"
    /\ slots' = [slots EXCEPT !.at = "trace", !.did = Append(@, "reset")]
    /\ UNCHANGED <<progVars, rx, con, lay, arg, desc, ga, prog>>

\* loader.py:60  rocket_enableTrace
SlotTrace ==
    /\ slots.at = "trace"
    /\ slots' = [slots EXCEPT !.at = "features", !.did = Append(@, "trace")]
    /\ UNCHANGED <<progVars, rx, con, lay, arg, desc, ga, prog>>

\* loader.py:63  tcu_set_features(1, self.vm, 1)
SlotFeatures ==
    /\ slots.at = "features"
    /\ slots' = [slots EXCEPT !.at = "inval", !.did = Append(@, "features")]
    /\ UNCHANGED <<progVars, rx, con, lay, arg, desc, ga, prog>>

\* loader.py:66-67  for ep in range(0, 127): tcu_set_ep(ep, EP.invalid())
SlotInvalidate ==
    /\ slots.at = "inval"
    /\ IF slots.ep < 127
       THEN slots' = [slots EXCEPT !.eps[slots.ep] = InvalidEp, !.ep = @ + 1]
       ELSE slots' = [slots EXCEPT !.at = "pmp", !.did = Append(@, "inval")]
    /\ UNCHANGED <<progVars, rx, con, lay, arg, desc, ga, prog>>

\* loader.py:70-82  the PMP endpoint at slot 0, for a loaded tile or without vm
SlotPmp ==
    /\ slots.at = "pmp"
    /\ IF slots.loaded \/ ~slots.vm
       THEN LET mem_begin0 == PMP_ADDR + slots.tile * pmp_size(slots.vm)
                mem_size == pmp_size(slots.vm)
                pmp_ep == MemEP(MEM_TILE, 65535, {"READ", "WRITE"}, mem_begin0,
                                mem_size)
            IN  slots' = [slots EXCEPT !.eps[0] = pmp_ep, !.at = "done",
                                       !.did = Append(@, "pmp")]
       ELSE slots' = [slots EXCEPT !.at = "done"]
    /\ UNCHANGED <<progVars, rx, con, lay, arg, desc, ga, prog>>

SlotNext == SlotReset \/ SlotTrace \/ SlotFeatures \/ SlotInvalidate \/ SlotPmp

SlotSpec == SlotInit /\ [][SlotNext]_vars

\* C28: after _init_tile has returned every slot but slot 0 is invalid; slot
\* 0 holds a memory endpoint with read and write permission, owner 0xFFFF,
\* address PMP_ADDR + tile_idx * pmp_size and size pmp_size at the memory tile
\* if the tile is loaded or virtual memory is off, and is invalid otherwise
C28_SlotsAfterInit ==
    slots.at = "done" =>
        /\ \A ep \in 1 .. (NUM_EPS - 1) : slots.eps[ep] = InvalidEp
        /\ slots.eps[0] =
              (IF slots.loaded \/ ~slots.vm
               THEN [kind |-> "mem", target |-> MEM_TILE, act |-> 65535,
                     flags |-> {"READ", "WRITE"},
                     addr |-> PMP_ADDR + slots.tile * pmp_size(slots.vm),
                     size |-> pmp_size(slots.vm)]
               ELSE InvalidEp)

\* ------------------------------------- Loader._load_prog: envp, jump, arguments

\* the writes of the first run of one kind, in the order they were made
ProgWrites(kind, field) == SelectSeq(prog.w, LAMBDA x : x.k = <<kind, field>>)

\* the first run has written the environment block
Loaded1 == prog.run = 1 /\ prog.at = "done"

\* the address of the tile's window that the tile-local address 0x10000000 has
WindowOff == mem_begin(prog.vm, prog.tile) - DRAM_OFF

\* C31: the envp word of the environment block is 0 without log flags;
\* with log flags it is the first 8-byte-aligned address behind the last
\* argv string, and there stand one pointer, to the string "LOG=<flags>"
\* behind the table, and a null pointer, none of them sharing a byte with an
\* argv pointer or string
C31_EnvPointer ==
    Loaded1 =>
        LET envp == ProgWrites("env", "envp")[1].v
            strs == ProgWrites("argv", "str")
            last == strs[Len(strs)]
            cursor == AndNot7(last.a + last.n + 7) - WindowOff
            eptr == ProgWrites("envp", "ptr")
            estr == ProgWrites("envp", "str")
            argvW == {prog.w[k] : k \in {j \in 1 .. Len(prog.w) : prog.w[j].k[1] = "argv"}}
        IN  IF prog.log = NoLog
            THEN envp = Bits(0) /\ Len(eptr) = 0 /\ Len(estr) = 0
            ELSE /\ envp = Bits(cursor)
                 /\ Len(eptr) = 2 /\ Len(estr) = 1
                 /\ eptr[1].a = cursor + WindowOff
                 /\ eptr[2].a = cursor + 8 + WindowOff
                 /\ eptr[1].v = Bits(estr[1].a - WindowOff)
                 /\ eptr[2].v = Bits(0)
                 /\ estr[1].a = cursor + 16 + WindowOff
                 /\ estr[1].n = prog.log.bytes + 1
                 /\ \A x \in argvW, y \in {eptr[1], eptr[2], estr[1]} : ~Overlap(x, y)

\* the offset of the RISC-V instruction jal in the word w: imm[20|10:1|11|19:12]
\* in bits 31..12
JalOffset(w) ==
    Val({b \in 12 .. 19 : b \in w}
        \cup {11 : b \in w \cap {20}}
        \cup {b - 20 : b \in w \cap (21 .. 30)})
    - (IF 31 \in w THEN Pow2(20) ELSE 0)

\* the position in prog.w of the one write of a kind
ProgIndex(kind, field) == CHOOSE k \in 1 .. Len(prog.w) : prog.w[k].k = <<kind, field>>

ArgAreaWrites ==
    {prog.w[k] : k \in {j \in 1 .. Len(prog.w) : prog.w[j].k[1] \in {"argv", "envp"}}}

\* C35: every pointer word and every string byte that _write_args has
\* written, the fatal overflow included, lies in the tile-local range
\* [ENV + 0x400, ENV + 0x800) of the tile's window
C35_ArgsInsideArea ==
    \A x \in ArgAreaWrites :
        /\ ARGV + WindowOff <= x.a
        /\ x.a + x.n <= ARGS_END + WindowOff

\* ------------------------------------------ Loader._add_mod: the module name

\* the name field of the module descriptor j (from 1): bytes 16..79 of the
\* 80 bytes behind the header of 32
NameField(j) == [a |-> ToBig(KENV_ADDR + 32 + 80 * (j - 1) + 16), n |-> ToBig(64)]

\* every write into the DRAM that Loader.init and the console have made
AllLayWrites == {lay.w[k] : k \in 1 .. Len(lay.w)}

\* C38: the name of every module, with its null byte, has been written at the
\* start of its descriptor's name field and ends inside the field, and these
\* bytes share no byte with any other write: not with another descriptor, a
\* tile descriptor or the memory record
C38_NameInsideField ==
    LayDone =>
        LET names == LayWrites("boot", "mod_name")
        IN  /\ Len(names) = Len(lay.mods)
            /\ \A j \in 1 .. Len(names) :
                  /\ names[j].a = NameField(j).a
                  /\ names[j].n = ToBig(lay.mods[j].name.bytes + 1)
                  /\ BigLe(EndOf(names[j]), EndOf(NameField(j)))
                  /\ \A y \in AllLayWrites \ {names[j]} : Disjoint(names[j], y)

\* -------------------------------------- Loader.init: window and PMP endpoint

\* the writes of _load_prog for tile t, and those into its environment block
LoaderWrites(t) == {x \in WritesBy("loader") : x.i = t}
EnvFields ==
    {"platform", "tile_id", "tile_desc", "argc", "argv", "envp", "kenv",
     "raw_tile_count", "tile_ids"}

\* C39: for every loaded tile i the one PMP endpoint of the tile has the base
\* PMP_ADDR + i * pmp_size and the size pmp_size, every write of _load_prog
\* for the tile lies in that range, the jump at its base and the image at
\* its entry, and the environment block with its table of T + 1 tile ids
\* begins at ENV and ends at or before the argument area at ENV + 0x400
C39_WindowIsEndpoint ==
    LayDone =>
        \A t \in 0 .. (lay.K - 1) :
            LET W == pmp_size(lay.vm)
                base == PMP_ADDR + t * W
                mine == {e \in lay.eps : e.tile = t}
                env == {x \in LoaderWrites(t) : x.k[2] \in EnvFields}
            IN  /\ mine = {[tile |-> t, a |-> ToBig(base), n |-> ToBig(W)]}
                /\ \A x \in LoaderWrites(t) :
                      Inside(x, ToBig(base), ToBig(base + W))
                /\ \E x \in LoaderWrites(t) : x.k[2] = "jump" /\ x.a = ToBig(base)
                /\ \E x \in LoaderWrites(t) :
                      x.k[2] = "elf" /\ x.a = ToBig(base + ENTRY_OFF)
                /\ \E x \in env : x.k[2] = "tile_ids" /\ x.n = ToBig(8 * (lay.T + 1))
                /\ \E x \in env : x.a = ToBig(base + ENV - DRAM_OFF)
                /\ \A x \in env :
                      Inside(x, ToBig(base + ENV - DRAM_OFF),
                             ToBig(base + ARGV - DRAM_OFF))

\* two programs on three tiles with virtual memory
C39_Witness ==
    /\ LayDone
    /\ lay.vm
    /\ lay.K = 2
    /\ lay.T = 3
    /\ {e.tile : e \in lay.eps} = {0, 1}
    /\ \E x \in LoaderWrites(1) : x.k[2] = "jump" /\ x.a = ToBig(16785408)

\* ------------------------------------------------ main(): mailbox and timeout

\* C33: no step of main() takes away a destination that a started tile has
\* published in this run: once published, the mailbox stays published
C33_ResetKeepsDestination ==
    [][mailbox = "published" => mailbox' = "published"]_vars

\* the steps of the timer thread, and those of the main thread
TimerNext == TimerFire \/ TimerCheck \/ TimerExit
MainNext ==
    \/ StopTiles \/ CheckVersion \/ ArqOff
    \/ LoaderInit \/ BootInfoHeader \/ AddMod \/ BootInfoDescs \/ BootInfoMem
    \/ InitReset \/ InitTrace \/ InitFeatures \/ InitInvalidate \/ InitPmp
    \/ LoadStart \/ LoadEntry \/ LoadElf \/ LoadArgv \/ LoadEnvp \/ LoadEnv
    \/ ArqOn \/ Start \/ Ready \/ Term \/ SetStarted
    \/ ChkTimeout \/ ChkStop \/ Receive \/ Forward \/ Interrupt
    \/ Cleanup \/ TeardownArq \/ TeardownPackets \/ TeardownFlits
    \/ LogDump \/ LogReset \/ LogRetry \/ TraceDump \/ TraceReset \/ TraceRetry
    \/ TeardownStop

\* both threads are scheduled again and again: no call of main() blocks for
\* ever (select and receive_bytes return), and the timer thread only sleeps
\* for the configured time
LiveSpec == Spec /\ WF_vars(MainNext) /\ WF_vars(TimerNext)

\* the run loop is over
LoopOver == pc \in {"cleanup", "td_arq"} \cup TeardownPcs

\* C34: once the timer has expired the process is killed or otherwise over,
\* or the run loop ends; and a timeout check of the run loop that finds the
\* flag set ends the loop with timed_out
C34_TimeoutNotLost ==
    /\ timeout_ev ~> (~Alive \/ LoopOver)
    /\ [][(Alive /\ pc = "chk_timeout" /\ timeout_ev /\ pc' # pc) =>
             (timed_out' /\ pc' = "cleanup")]_vars

\* the flag was set while the run loop ran and nothing else happened: the
\* loop has ended with timed_out
C34_Witness ==
    /\ Alive
    /\ pc = "cleanup"
    /\ timeout_ev
    /\ started_ev
    /\ tpc = "done"
    /\ quiet
    /\ timed_out

\* ------------------------------------------------ main(): the shutdown marker

\* longest message, and longest stream, the receive path is followed with
MaxRxMsg == 3
MaxRxLen == 4

\* messages of the receive path
RxMessages == UNION {[1 .. n -> Symbols] : n \in 1 .. MaxRxMsg}

\* RUNNING, with nothing received yet
RxInit ==
    /\ Parked
    /\ con = Idle
    /\ lay = Idle
    /\ arg = Idle
    /\ desc = Idle
    /\ ga = Idle
    /\ prog = Idle
    /\ slots = Idle
    /\ rx = [at |-> "receive", stream |-> <<>>, msg |-> <<>>]

\* main.py:121-125  receive_bytes returns the next bytes of the stream (a
\* receive that times out starts the iteration again and changes nothing)
RxReceive ==
    /\ rx.at = "receive"
    /\ \E m \in RxMessages :
         /\ Len(rx.stream) + Len(m) <= MaxRxLen
         /\ rx' = [rx EXCEPT !.at = "forward", !.msg = m, !.stream = @ \o m]
    /\ UNCHANGED <<progVars, con, lay, arg, desc, ga, prog, slots>>

\* main.py:127-136  write the bytes out; decode them and look for the marker
RxForward ==
    /\ rx.at = "forward"
    /\ rx' = [rx EXCEPT !.at = IF Decodes(rx.msg) /\ Contains(rx.msg)
                               THEN "stopped" ELSE "receive",
                        !.msg = <<>>]
    /\ UNCHANGED <<progVars, con, lay, arg, desc, ga, prog, slots>>

RxNext == RxReceive \/ RxForward

RxSpec == RxInit /\ [][RxNext]_vars

\* C36: when the bytes received so far hold the marker, however they were
\* split into messages and whatever else they hold, the run loop does not
\* go on to its next receive: it has ended in STOPPED
C36_MarkerStops ==
    (rx # Idle /\ Contains(rx.stream)) => rx.at # "receive"

\* ------------------------------------------------ main(): the end of a run

\* main.py:140-191  the tiles whose diagnostics have been read
Diagnosed == {diag[k] : k \in 1 .. Len(diag)}

\* C37: in the teardown ARQ is off from before the first diagnostic read
\* until the process ends, a tile is stopped only after its diagnostics, and
\* a run that has left the run loop and ended by a return or an exception of
\* main() has stopped every tile, in index order, with no tile left running
C37_RunEndsAllStopped ==
    /\ pc \in TeardownPcs => arq = "off"
    /\ \A k \in 1 .. Len(halted) : halted[k] \in Diagnosed
    /\ (pc \in {"cleanup", "td_arq"} \cup TeardownPcs
            /\ proc \in {"returned", "crashed"}) =>
          /\ pc = "td_done"
          /\ halted = AllTilesInOrder
          /\ clock = {}

====
